---- MODULE Spec2Model ----
(***************************************************************************)
(* A model of the holreg-database pipeline: credit-field parsing and       *)
(* normalization (normalize-credits.py), crew/author cleanup (cleanup.py), *)
(* and the controlled-vocabulary scripts (migrate-vocab.py,                *)
(* expand-mappings.py, apply-controlled-terms.py).                         *)
(*                                                                         *)
(* Text values are sequences of one-character strings, so that splitting,  *)
(* trimming and matching are computed character by character as the code   *)
(* computes them.  Python's None and SQL's NULL are the value NULL.        *)
(***************************************************************************)
EXTENDS Integers, Sequences, FiniteSets, TLC

VARIABLES
    field,          \* parse_names: the credit field handed to the parser
    results,        \* parse_names: the list it returned
    pc,             \* parse_names: "start" before the call, "done" after
    films,          \* table films, in rowid order: each row carries its id
    people,         \* table people, in rowid order: person_id is the index
    film_directors, \* table film_directors, in insertion order
    film_writers,   \* table film_writers
    film_producers, \* table film_producers
    authors,        \* table authors, in rowid order: author_id is the index
    film_authors,   \* table film_authors
    lastOp,         \* the script that ran last
    reran,          \* the scripts that have run again on rows unchanged since their last
                    \* run, and "tag" once a tagging run met a pair it found stored
    normalizedFilms,\* the films rows as the last normalization run read them
    cleanedFilms,   \* the films rows as the last cleanup run left them
    tablesCreated,  \* whether the controlled-vocabulary tables exist
    controlled_terms,           \* table controlled_terms, in rowid order: term_id is the index
    afi_to_controlled_mapping,  \* table afi_to_controlled_mapping, in insertion order
    film_subjects_controlled,   \* table film_subjects_controlled, in insertion order
    unmapped_subjects_txt,      \* the lines of unmapped_subjects.txt, NULL while there is no file
    expanded,       \* the list the last create_expanded_mappings call returned
    computed,       \* the relevance the last tagging run computed, token by token
    saves,          \* the number of save_film_data calls so far
    production_companies,   \* table production_companies, in rowid order: id is the index
    films_json,     \* the list of film documents in films.json, NULL while there is no file
    decade_files,   \* the films_<decade>s.json files: decade -> list of film documents
    authors_json,   \* the list of author documents in authors.json, NULL while there is no file
    people_json,    \* people.json as a JSON value, null while there is no file
    metadata_json,  \* metadata.json as a JSON value, null while there is no file
    film_pages,     \* the files films/<name>.html: name -> what the page shows
    author_pages,   \* the files authors/<name>.html: name -> what the page shows
    films_backup,   \* table films_backup of clean-authors.py, NULL while there is no table
    clean_authors_run,  \* the last clean-authors.py run: its dry_run flag, the films rows
                        \* it read and the number of changes it returned
    catalogue,      \* what the AFI catalogue answers to a search
    movie_list,     \* the (title, year) list given to collect_films_from_list
    item,           \* the index in movie_list of the item the loop processes next
    successful_matches, \* the counter of collect_films_from_list
    failed_matches,     \* the list of collect_films_from_list
    processed,      \* the items the loop has processed, in order
    search_result,  \* <<what search_film returned for the item processed last>>
    extracted       \* <<what extract_film_data returned for it>>, <<>> when not called

parseVars == <<field, results, pc>>

storeVars == <<films, people, film_directors, film_writers, film_producers,
               authors, film_authors, lastOp, reran, normalizedFilms, cleanedFilms>>

vocabVars == <<tablesCreated, controlled_terms, afi_to_controlled_mapping,
               film_subjects_controlled, unmapped_subjects_txt, expanded, computed>>

exportVars == <<films_json, decade_files, authors_json, people_json, metadata_json>>

pageVars == <<film_pages, author_pages>>

\* the state of the tools that read the store or run beside it
cleanAuthorsVars == <<films_backup, clean_authors_run>>

collectVars == <<catalogue, movie_list, item, successful_matches, failed_matches,
                 processed, search_result, extracted>>

companyVars == <<production_companies>>

toolVars == <<exportVars, pageVars, cleanAuthorsVars, collectVars, companyVars>>

vars == <<parseVars, storeVars, vocabVars, saves, toolVars>>

(***************************************************************************)
(* Text                                                                    *)
(***************************************************************************)
NULL == <<"NULL">>

\* JSON values: None, a number, a string, a list, a dict.  A dict is the
\* sequence of its (key, value) pairs, in insertion order.
JNull == [type |-> "null"]
JInt(n) == [type |-> "int", value |-> n]
JText(s) == [type |-> "text", value |-> s]
JList(items) == [type |-> "list", value |-> items]
JDict(pairs) == [type |-> "dict", value |-> pairs]

Digits == {"0", "1", "2", "3", "4", "5", "6", "7", "8", "9"}

Whitespace == {" "}

IsSpace(c) == c \in Whitespace

\* str.isdigit(): non-empty and every character a digit
IsDigit(s) == Len(s) > 0 /\ \A i \in 1..Len(s) : s[i] \in Digits

RECURSIVE LStrip(_)
LStrip(s) ==
    IF Len(s) > 0 /\ IsSpace(Head(s)) THEN LStrip(Tail(s)) ELSE s

RECURSIVE RStrip(_)
RStrip(s) ==
    IF Len(s) > 0 /\ IsSpace(s[Len(s)]) THEN RStrip(SubSeq(s, 1, Len(s) - 1)) ELSE s

\* str.strip()
Strip(s) == RStrip(LStrip(s))

\* str.split(sep) for a one-character separator
RECURSIVE SplitAcc(_, _, _, _)
SplitAcc(s, sep, i, cur) ==
    IF i > Len(s) THEN <<cur>>
    ELSE IF s[i] = sep THEN <<cur>> \o SplitAcc(s, sep, i + 1, <<>>)
    ELSE SplitAcc(s, sep, i + 1, Append(cur, s[i]))

Split(s, sep) == SplitAcc(s, sep, 1, <<>>)

\* the first index >= i of s that holds no whitespace (Len(s) + 1 if none)
RECURSIVE SkipSpace(_, _)
SkipSpace(s, i) ==
    IF i <= Len(s) /\ IsSpace(s[i]) THEN SkipSpace(s, i + 1) ELSE i

\* whether the regular expression \s*\|\s* matches at index i of s
PipeMatchAt(s, i) ==
    LET j == SkipSpace(s, i) IN j <= Len(s) /\ s[j] = "|"

\* re.split(r'\s*\|\s*', s): scan for the leftmost match, cut, go on after it
RECURSIVE ReSplitAcc(_, _, _)
ReSplitAcc(s, i, cur) ==
    IF i > Len(s) THEN <<cur>>
    ELSE IF PipeMatchAt(s, i)
         THEN <<cur>> \o ReSplitAcc(s, SkipSpace(s, SkipSpace(s, i) + 1), <<>>)
         ELSE ReSplitAcc(s, i + 1, Append(cur, s[i]))

ReSplitPipe(s) == ReSplitAcc(s, 1, <<>>)

Map(f(_), s) == [i \in 1..Len(s) |-> f(s[i])]

\* sep.join(parts)
RECURSIVE Join(_, _)
Join(parts, sep) ==
    IF Len(parts) = 0 THEN <<>>
    ELSE IF Len(parts) = 1 THEN parts[1]
    ELSE parts[1] \o sep \o Join(Tail(parts), sep)

HasPipe(s) == \E i \in 1..Len(s) : s[i] = "|"

UpperLetters == <<"A", "B", "C", "D", "E", "F", "G", "H", "I", "J", "K", "L", "M",
                  "N", "O", "P", "Q", "R", "S", "T", "U", "V", "W", "X", "Y", "Z">>

LowerLetters == <<"a", "b", "c", "d", "e", "f", "g", "h", "i", "j", "k", "l", "m",
                  "n", "o", "p", "q", "r", "s", "t", "u", "v", "w", "x", "y", "z">>

Range(s) == {s[i] : i \in 1..Len(s)}

\* the lower-case letter of each upper-case letter
ToLower == [c \in Range(UpperLetters) |->
               LowerLetters[CHOOSE i \in 1..26 : UpperLetters[i] = c]]

\* str.lower(), one character
LowerChar(c) == IF c \in DOMAIN ToLower THEN ToLower[c] ELSE c

\* str.lower()
Lower(s) == [i \in 1..Len(s) |-> LowerChar(s[i])]

WordChars == Range(UpperLetters) \cup Range(LowerLetters) \cup Digits \cup {"_"}

\* the regular expression class \w
IsWordChar(c) == c \in WordChars

(***************************************************************************)
(* normalize-credits.py: parse_names                                       *)
(***************************************************************************)
\* re.match(r'^(.+?)\|(\d+)$', part): the indexes k of a '|' with at least one
\* character before it and only digits, at least one, after it
EmbeddedIdAt(part) ==
    {k \in 2..Len(part) :
        part[k] = "|" /\ IsDigit(SubSeq(part, k + 1, Len(part)))}

Min(S) == CHOOSE x \in S : \A y \in S : x <= y

\* ParseStep with the digits branch appending a digit part that follows no name
ParseStepKeepsLeadingDigits(res, rawPart) ==
    LET part == Strip(rawPart) IN
    IF Len(part) = 0 THEN res
    ELSE IF IsDigit(part) /\ Len(res) > 0
         THEN IF res[Len(res)].afi_id = NULL
              THEN [res EXCEPT ![Len(res)].afi_id = part]
              ELSE res
         ELSE Append(res, [name |-> part, afi_id |-> NULL])

\* ParseStep without the "is None" guard: a later digit part replaces the id
ParseStepLastIdWins(res, rawPart) ==
    LET part == Strip(rawPart) IN
    IF Len(part) = 0 THEN res
    ELSE IF IsDigit(part)
         THEN IF Len(res) > 0
              THEN [res EXCEPT ![Len(res)].afi_id = part]
              ELSE res
         ELSE Append(res, [name |-> part, afi_id |-> NULL])

\* one step of the loop over the parts (lines 66-83)
ParseStep(res, rawPart) ==
    LET part == Strip(rawPart) IN
    IF Len(part) = 0 THEN res
    ELSE IF IsDigit(part)
         THEN IF Len(res) > 0 /\ res[Len(res)].afi_id = NULL
              THEN [res EXCEPT ![Len(res)].afi_id = part]
              ELSE res
         ELSE IF EmbeddedIdAt(part) # {}
              THEN LET k == Min(EmbeddedIdAt(part)) IN
                   Append(res, [name |-> Strip(SubSeq(part, 1, k - 1)),
                                afi_id |-> SubSeq(part, k + 1, Len(part))])
              ELSE Append(res, [name |-> part, afi_id |-> NULL])

RECURSIVE ParseLoop(_, _, _)
ParseLoop(parts, i, res) ==
    IF i > Len(parts) THEN res
    ELSE ParseLoop(parts, i + 1, ParseStep(res, parts[i]))

parse_names(field_value) ==
    IF field_value = NULL \/ Len(field_value) = 0 THEN <<>>
    ELSE ParseLoop(ReSplitPipe(field_value), 1, <<>>)

(***************************************************************************)
(* The parser on its own: every field up to MaxFieldLen characters.        *)
(***************************************************************************)
MaxFieldLen == 5

ParseAlphabet == {"a", " ", "|", "1", "2"}

Strings(alphabet, n) == UNION {[1..k -> alphabet] : k \in 0..n}

\* the database before the vocabulary migration has run on it
NoVocabulary ==
    /\ tablesCreated = FALSE
    /\ controlled_terms = <<>>
    /\ afi_to_controlled_mapping = <<>>
    /\ film_subjects_controlled = <<>>
    /\ unmapped_subjects_txt = NULL
    /\ expanded = <<>>
    /\ computed = <<>>

\* nothing has been exported yet
NoExport ==
    /\ films_json = NULL
    /\ decade_files = <<>>
    /\ authors_json = NULL
    /\ people_json = JNull
    /\ metadata_json = JNull

\* no page has been generated yet
NoPages ==
    /\ film_pages = <<>>
    /\ author_pages = <<>>

\* clean-authors.py has not run
NoCleanAuthorsRun ==
    /\ films_backup = NULL
    /\ clean_authors_run = [dry_run |-> TRUE, films |-> <<>>, count |-> 0]

\* what the catalogue answers to a search: JSON without the keys
\* extract_film_data looks for, or with a list of results (by sample number)
Answer(kind, rs) == [kind |-> kind, results |-> rs]

\* no collection is under way
NoCollection ==
    /\ catalogue = Answer("no_results", <<>>)
    /\ movie_list = <<>>
    /\ item = 1
    /\ successful_matches = 0
    /\ failed_matches = <<>>
    /\ processed = <<>>
    /\ search_result = <<>>
    /\ extracted = <<>>

\* no company has been stored
NoCompanies == production_companies = <<>>

ToolsIdle == NoExport /\ NoPages /\ NoCleanAuthorsRun /\ NoCollection /\ NoCompanies

ParseInit ==
    /\ field \in Strings(ParseAlphabet, MaxFieldLen) \cup {NULL}
    /\ results = <<>>
    /\ pc = "start"
    /\ films = <<>>
    /\ people = <<>>
    /\ film_directors = <<>>
    /\ film_writers = <<>>
    /\ film_producers = <<>>
    /\ authors = <<>>
    /\ film_authors = <<>>
    /\ lastOp = "none"
    /\ reran = {}
    /\ normalizedFilms = <<>>
    /\ cleanedFilms = <<>>
    /\ NoVocabulary
    /\ saves = 0
    /\ ToolsIdle

ParseNames ==
    /\ pc = "start"
    /\ results' = parse_names(field)
    /\ pc' = "done"
    /\ UNCHANGED <<toolVars, field, storeVars, vocabVars, saves>>

ParseNext == ParseNames

ParseSpec == ParseInit /\ [][ParseNext]_vars

(***************************************************************************)
(* What the parser is specified to return, computed from a plain split on  *)
(* '|' (not from the regular expression the code splits with).             *)
(***************************************************************************)
NonEmpty(s) == Len(s) > 0

IsNamePart(s) == Len(s) > 0 /\ ~IsDigit(s)

\* the trimmed, non-empty parts of a field, in input order
RefParts(f) ==
    IF f = NULL THEN <<>> ELSE SelectSeq(Map(Strip, Split(f, "|")), NonEmpty)

\* the trimmed, non-empty, non-pure-digit parts of a field, in input order
RefNames(f) == SelectSeq(RefParts(f), IsNamePart)

Names(res) == [i \in 1..Len(res) |-> res[i].name]

\* the number of name parts among the first j parts
NamesUpTo(parts, j) == Cardinality({i \in 1..j : IsNamePart(parts[i])})

\* the index in parts of the k-th name part
NameIndex(parts, k) ==
    CHOOSE j \in 1..Len(parts) : IsNamePart(parts[j]) /\ NamesUpTo(parts, j) = k

\* the part right after the k-th name part when that part is pure digits
FirstIdAfter(parts, k) ==
    LET j == NameIndex(parts, k) IN
    IF j < Len(parts) /\ IsDigit(parts[j + 1]) THEN parts[j + 1] ELSE NULL

\* C1: parse_names returns as names exactly the trimmed, non-empty,
\* non-pure-digit parts of the field split on '|', in input order; so it
\* returns as many pairs as there are such parts, and nothing for an empty or
\* null field.
C1_NamesAreTheNameParts ==
    pc = "done" =>
        /\ Names(results) = RefNames(field)
        /\ Len(results) = Len(RefNames(field))
        /\ (field = NULL \/ field = <<>>) => results = <<>>

\* C1 witness: a parsed field with two names and a pure-digit part between them.
C1_Witness ==
    /\ pc = "done"
    /\ Len(results) = 2
    /\ Len(RefParts(field)) = 3
    /\ IsDigit(RefParts(field)[2])

\* C2 as stated: every pure-digit part with a name part before it is the id
\* of the name parsed last before it, and no returned name is pure digits.
C2_EveryDigitPartIsTheId ==
    pc = "done" =>
        LET parts == RefParts(field) IN
        /\ \A j \in 1..Len(parts) :
              (IsDigit(parts[j]) /\ NamesUpTo(parts, j) > 0) =>
                  results[NamesUpTo(parts, j)].afi_id = parts[j]
        /\ \A k \in 1..Len(results) : ~IsDigit(results[k].name)

\* C2 amended: the id of a parsed name is the pure-digit part that directly
\* follows it (None when the next part is a name or there is none); a further
\* pure-digit part, or one before any name, is dropped; no returned name is
\* pure digits.
C2_FirstDigitPartIsTheId ==
    pc = "done" =>
        LET parts == RefParts(field) IN
        /\ Len(results) = Len(RefNames(field))
        /\ \A k \in 1..Len(results) :
              /\ results[k].afi_id = FirstIdAfter(parts, k)
              /\ ~IsDigit(results[k].name)

\* C2 witness: a name with an id, followed by a second pure-digit part.
C2_Witness ==
    /\ pc = "done"
    /\ Len(results) = 1
    /\ results[1].afi_id # NULL
    /\ Len(RefParts(field)) = 3
    /\ IsNamePart(RefParts(field)[1])
    /\ RefParts(field)[2] # RefParts(field)[3]

(***************************************************************************)
(* normalize-credits.py: normalize_multiple_people                         *)
(***************************************************************************)
\* Python truthiness of a column value: neither None nor ''
Truthy(v) == v # NULL /\ Len(v) > 0

\* re.sub(r'\s+', ' ', s): every run of whitespace becomes one space
RECURSIVE CollapseSpace(_)
CollapseSpace(s) ==
    IF Len(s) = 0 THEN <<>>
    ELSE IF IsSpace(s[1])
         THEN <<" ">> \o CollapseSpace(SubSeq(s, SkipSpace(s, 1), Len(s)))
         ELSE <<s[1]>> \o CollapseSpace(Tail(s))

KeepsWordOrSpace(c) == IsWordChar(c) \/ IsSpace(c)

\* normalize_name (lines 88-94)
normalize_name(name) ==
    Strip(SelectSeq(CollapseSpace(Lower(name)), KeepsWordOrSpace))

\* INSERT OR IGNORE INTO people: name is UNIQUE (lines 20-28, 109-112)
InsertPersonOrIgnore(table, row) ==
    IF \E i \in 1..Len(table) : table[i].name = row.name
    THEN table
    ELSE Append(table, row)

\* SELECT person_id FROM people WHERE name = ? (lines 115-116)
PersonIdByName(table, name) ==
    CHOOSE i \in 1..Len(table) : table[i].name = name

\* the upsert with a plain INSERT into a people table whose name is not UNIQUE
UpsertPersonAlways(table, row) ==
    [table |-> Append(table, row), person_id |-> Len(table) + 1]

\* the upsert with insertion and lookup by name_normalized instead of name
UpsertPersonByNormalizedKey(table, row) ==
    LET t == IF \E i \in 1..Len(table) :
                    table[i].name_normalized = row.name_normalized
             THEN table
             ELSE Append(table, row)
    IN  [table |-> t,
         person_id |-> CHOOSE i \in 1..Len(t) :
                           t[i].name_normalized = row.name_normalized]

\* the person upsert (lines 109-116): insert unless the name is stored, then
\* read the identifier of the row holding the name
UpsertPerson(table, row) ==
    LET t == InsertPersonOrIgnore(table, row) IN
    [table |-> t, person_id |-> PersonIdByName(t, row.name)]

\* a plain INSERT into a role table that has no primary key
InsertLinkAlways(table, row) == Append(table, row)

\* INSERT OR IGNORE INTO film_<role>: PRIMARY KEY (film_id, person_id, position)
\* (lines 33-45, 119-122)
InsertLinkOrIgnore(table, row) ==
    IF \E i \in 1..Len(table) :
           /\ table[i].film_id = row.film_id
           /\ table[i].person_id = row.person_id
           /\ table[i].position = row.position
    THEN table
    ELSE Append(table, row)

\* enumerate(names) without the start value
BillingPositionFromZero(index) == index

\* enumerate(names, 1): the position of the element at 0-based index
BillingPosition(index) == index + 1

\* the loop over the parsed names of one role of one film (lines 106-122)
RECURSIVE LinkLoop(_, _, _, _, _)
LinkLoop(db, role, film_id, parsed, i) ==
    IF i > Len(parsed) THEN db
    ELSE LET name == parsed[i].name
             up   == UpsertPerson(db.people,
                         [name |-> name,
                          name_normalized |-> normalize_name(name),
                          afi_id |-> parsed[i].afi_id])
             row  == [film_id |-> film_id,
                      person_id |-> up.person_id,
                      position |-> BillingPosition(i - 1)]
         IN  LinkLoop([db EXCEPT !.people = up.table,
                                 ![role] = InsertLinkOrIgnore(@, row)],
                      role, film_id, parsed, i + 1)

\* one role of one film: "if director: ..." (lines 104-122, 125-140, 143-158)
NormalizeRole(db, role, film_id, value) ==
    IF Truthy(value) THEN LinkLoop(db, role, film_id, parse_names(value), 1)
    ELSE db

\* the body of the loop over the films (lines 102-158)
NormalizeFilm(db, film_id, row) ==
    LET d == NormalizeRole(db, "film_directors", film_id, row.director)
        w == NormalizeRole(d, "film_writers", film_id, row.writer)
    IN  NormalizeRole(w, "film_producers", film_id, row.producer)

\* the loop over the rows of SELECT id, director, writer, producer FROM films
RECURSIVE NormalizeLoop(_, _, _)
NormalizeLoop(db, rows, i) ==
    IF i > Len(rows) THEN db
    ELSE NormalizeLoop(NormalizeFilm(db, rows[i].id, rows[i]), rows, i + 1)

\* normalize_multiple_people: one run of the script over the store
NormalizeRun ==
    LET db == NormalizeLoop([people |-> people,
                             film_directors |-> film_directors,
                             film_writers |-> film_writers,
                             film_producers |-> film_producers], films, 1)
    IN  /\ people' = db.people
        /\ film_directors' = db.film_directors
        /\ film_writers' = db.film_writers
        /\ film_producers' = db.film_producers
        /\ normalizedFilms' = films
        /\ lastOp' = "normalize"
        /\ reran' = IF normalizedFilms = films THEN reran \cup {"normalize"} ELSE reran
        /\ UNCHANGED <<toolVars, films, authors, film_authors, cleanedFilms, parseVars,
                       vocabVars, saves>>

(***************************************************************************)
(* cleanup.py: clean_database                                              *)
(***************************************************************************)
CleanDirectorJoinedBySpace(director) ==
    IF director # NULL /\ HasPipe(director)
    THEN Join(SelectSeq(Map(Strip, Split(director, "|")), IsNamePart), <<" ">>)
    ELSE director

\* the director update (lines 51-69): rows with director LIKE '%|%'
CleanDirector(director) ==
    IF director # NULL /\ HasPipe(director)
    THEN Join(SelectSeq(Map(Strip, Split(director, "|")), IsNamePart), <<" ", "|", " ">>)
    ELSE director

\* the literary_credits update (lines 76-86): rows with literary_credits LIKE '%|%'
CleanCredits(credits) ==
    IF credits # NULL /\ HasPipe(credits)
    THEN Join(SelectSeq(Map(Strip, ReSplitPipe(credits)), NonEmpty), <<" ", "|", " ">>)
    ELSE credits

RECURSIVE TrimLeft(_)
TrimLeft(s) == IF Len(s) > 0 /\ Head(s) = " " THEN TrimLeft(Tail(s)) ELSE s

RECURSIVE TrimRight(_)
TrimRight(s) ==
    IF Len(s) > 0 /\ s[Len(s)] = " " THEN TrimRight(SubSeq(s, 1, Len(s) - 1)) ELSE s

\* UPDATE films SET col = TRIM(col) WHERE col IS NOT NULL AND col != TRIM(col)
\* (lines 96-101): SQL TRIM removes spaces
SqlTrim(v) == IF v = NULL THEN NULL ELSE TrimRight(TrimLeft(v))

LouisKingWithId ==
    <<"L", "o", "u", "i", "s", " ", "K", "i", "n", "g", "|",
      "1", "0", "1", "0", "8", "5">>

LouisKing == <<"L", "o", "u", "i", "s", " ", "K", "i", "n", "g">>

\* the special case (lines 104-108)
FixLouisKing(director) == IF director = LouisKingWithId THEN LouisKing ELSE director

\* the films row after the updates of lines 51-108
CleanFilmRow(row) ==
    [row EXCEPT !.director = FixLouisKing(SqlTrim(CleanDirector(@))),
                !.writer = SqlTrim(@),
                !.producer = SqlTrim(@),
                !.literary_credits = SqlTrim(CleanCredits(@)),
                !.subjects = SqlTrim(@)]

\* the authors named by one literary_credits value (lines 140-143, 157-160)
CreditAuthors(credits) ==
    IF HasPipe(credits) THEN Map(Strip, Split(credits, "|")) ELSE <<Strip(credits)>>

\* INSERT OR IGNORE INTO authors (name): name is UNIQUE (lines 113-119, 147)
InsertAuthorOrIgnore(table, name) ==
    IF \E i \in 1..Len(table) : table[i] = name THEN table ELSE Append(table, name)

RECURSIVE AddAuthors(_, _, _)
AddAuthors(table, names, i) ==
    IF i > Len(names) THEN table
    ELSE AddAuthors(IF Len(names[i]) > 0 THEN InsertAuthorOrIgnore(table, names[i])
                    ELSE table, names, i + 1)

\* populate authors (lines 133-147), the credit values read in films order
RECURSIVE PopulateAuthors(_, _, _)
PopulateAuthors(table, rows, i) ==
    IF i > Len(rows) THEN table
    ELSE PopulateAuthors(
             IF Truthy(rows[i].literary_credits)
             THEN AddAuthors(table, CreditAuthors(rows[i].literary_credits), 1)
             ELSE table, rows, i + 1)

\* INSERT OR IGNORE INTO film_authors: PRIMARY KEY (film_id, author_id)
\* (lines 121-130, 167-170)
InsertFilmAuthorOrIgnore(table, row) ==
    IF \E i \in 1..Len(table) :
           table[i].film_id = row.film_id /\ table[i].author_id = row.author_id
    THEN table
    ELSE Append(table, row)

\* the loop over the authors of one film (lines 162-170)
RECURSIVE LinkAuthors(_, _, _, _, _)
LinkAuthors(table, authorTable, film_id, names, idx) ==
    IF idx > Len(names) THEN table
    ELSE LinkAuthors(
             IF /\ Len(names[idx]) > 0
                /\ \E a \in 1..Len(authorTable) : authorTable[a] = names[idx]
             THEN InsertFilmAuthorOrIgnore(table,
                      [film_id |-> film_id,
                       author_id |-> CHOOSE a \in 1..Len(authorTable) :
                                         authorTable[a] = names[idx],
                       author_order |-> idx])
             ELSE table, authorTable, film_id, names, idx + 1)

\* link films to authors (lines 152-170)
RECURSIVE LinkFilms(_, _, _, _)
LinkFilms(table, authorTable, rows, i) ==
    IF i > Len(rows) THEN table
    ELSE LinkFilms(
             IF Truthy(rows[i].literary_credits)
             THEN LinkAuthors(table, authorTable, rows[i].id,
                              CreditAuthors(rows[i].literary_credits), 1)
             ELSE table, authorTable, rows, i + 1)

\* clean_database: one run of the script over the store
CleanDatabase ==
    LET cleaned == [f \in 1..Len(films) |-> CleanFilmRow(films[f])]
        auth    == PopulateAuthors(authors, cleaned, 1)
    IN  /\ films' = cleaned
        /\ authors' = auth
        /\ film_authors' = LinkFilms(film_authors, auth, cleaned, 1)
        /\ cleanedFilms' = cleaned
        /\ lastOp' = "cleanup"
        /\ reran' = IF cleanedFilms = films THEN reran \cup {"cleanup"} ELSE reran
        /\ UNCHANGED <<toolVars, people, film_directors, film_writers, film_producers,
                       normalizedFilms, parseVars, vocabVars, saves>>

(***************************************************************************)
(* The store under normalization and cleanup runs, from NumFilms film rows *)
(* taken from sample rows.                                                 *)
(***************************************************************************)
NumFilms == 2

\* the credit columns of a films row
FilmRow(d, w, p, l) ==
    [director |-> d, writer |-> w, producer |-> p, literary_credits |-> l]

\* the AFI movie id of the n-th sample film: "1", "11", "111", ...
SampleMovieId(n) == [i \in 1..n |-> "1"]

\* the films row with rowid id that ingestion stored for credit columns c
StoredFilm(id, c) ==
    [id |-> id, afi_movie_id |-> SampleMovieId(id), director |-> c.director, writer |-> c.writer,
     producer |-> c.producer, literary_credits |-> c.literary_credits,
     subjects |-> NULL]

SampleRows ==
    { FilmRow(NULL, NULL, NULL, NULL),
      FilmRow(<<"a">>, <<"a">>, <<>>, <<"b">>),
      FilmRow(<<"a", "|", "1">>, <<"A">>, <<"a">>, <<"b", "|", "a">>),
      FilmRow(<<"a", ".", "|", " ", "A">>, NULL, <<"b", " ">>, <<"a", " ", "|", " ", "b">>),
      FilmRow(<<"b", "|", "|", "2", "|", "a", "|", "2", "2", "|", "3">>, <<"a", "|", "b">>,
              <<"a", "|", "a">>, NULL),
      FilmRow(<<" ", "b", " ", "|", "a", " ">>, <<"b">>, NULL, <<"b", "|", "1", "2">>),
      FilmRow(<<"1", "|", "a", " ", "b", "|", "a", " ", " ", "B">>, <<"|", "a">>,
              <<"2">>, <<" ", "a", "|", "|", "b", " ">>) }

StoreInit ==
    /\ \E c \in [1..NumFilms -> SampleRows] :
           films = [i \in 1..NumFilms |-> StoredFilm(i, c[i])]
    /\ people = <<>>
    /\ film_directors = <<>>
    /\ film_writers = <<>>
    /\ film_producers = <<>>
    /\ authors = <<>>
    /\ film_authors = <<>>
    /\ lastOp = "none"
    /\ reran = {}
    /\ normalizedFilms = <<>>
    /\ cleanedFilms = <<>>
    /\ field = NULL
    /\ results = <<>>
    /\ pc = "done"
    /\ NoVocabulary
    /\ saves = 0
    /\ ToolsIdle

StoreNext == NormalizeRun \/ CleanDatabase

StoreSpec == StoreInit /\ [][StoreNext]_vars

(***************************************************************************)
(* Claims about the people table and the role tables                       *)
(***************************************************************************)
RoleColumns == {"director", "writer", "producer"}

RoleTable(column) ==
    CASE column = "director" -> film_directors
      [] column = "writer" -> film_writers
      [] column = "producer" -> film_producers

\* the names a credit column value gives, by the plain split on '|'
ColumnNames(value) == IF Truthy(value) THEN RefNames(value) ELSE <<>>

\* every name the last normalization run read from the films rows
NormalizedNames ==
    UNION {{ColumnNames(normalizedFilms[f][c])[k] :
                k \in 1..Len(ColumnNames(normalizedFilms[f][c]))} :
           f \in 1..Len(normalizedFilms), c \in RoleColumns}

UniqueNames(table) ==
    \A i, j \in 1..Len(table) : table[i].name = table[j].name => i = j

UniqueAuthors(table) ==
    \A i, j \in 1..Len(table) : table[i] = table[j] => i = j

\* C3: person upsert is idempotent.  In every step, each row of people (and
\* of authors) keeps its identifier and its name; afterwards each name has
\* exactly one row, and upserting a stored name again adds no row and returns
\* the identifier the name already had.
C3_UpsertIsIdempotent ==
    [][ /\ Len(people') >= Len(people)
        /\ \A i \in 1..Len(people) : people'[i].name = people[i].name
        /\ UniqueNames(people')
        /\ \A i \in 1..Len(people') :
              UpsertPerson(people', [name |-> people'[i].name,
                                     name_normalized |-> normalize_name(people'[i].name),
                                     afi_id |-> NULL])
                  = [table |-> people', person_id |-> i]
        /\ Len(authors') >= Len(authors)
        /\ \A i \in 1..Len(authors) : authors'[i] = authors[i]
        /\ UniqueAuthors(authors')
        /\ \A i \in 1..Len(authors') :
              InsertAuthorOrIgnore(authors', authors'[i]) = authors' ]_vars

\* C3 witness: both scripts have run again over rows they had already
\* processed, with several people and authors stored.
C3_Witness ==
    /\ reran = {"normalize", "cleanup"}
    /\ Len(people) >= 2
    /\ Len(authors) >= 2

\* C4: person identity is the exact string.  Any two different names the
\* normalization run read are stored as two people rows with different
\* identifiers, whatever their name_normalized keys are.
C4_IdentityIsExactString ==
    \A n1, n2 \in NormalizedNames :
        n1 # n2 =>
            \E i1, i2 \in 1..Len(people) :
                i1 # i2 /\ people[i1].name = n1 /\ people[i2].name = n2

\* C4 witness: two people rows with different names and the same search key.
C4_Witness ==
    \E i1, i2 \in 1..Len(people) :
        /\ i1 # i2
        /\ people[i1].name # people[i2].name
        /\ people[i1].name_normalized = people[i2].name_normalized

\* C5: role-junction insertion is idempotent.  A normalization run over film
\* rows unchanged since the last normalization run leaves the row counts of
\* film_directors, film_writers and film_producers unchanged, and a cleanup
\* run over film rows unchanged since the last cleanup run leaves the row
\* count of film_authors unchanged.
C5_RerunAddsNoLink ==
    [][ /\ (lastOp' = "normalize" /\ normalizedFilms = films) =>
              /\ Len(film_directors') = Len(film_directors)
              /\ Len(film_writers') = Len(film_writers)
              /\ Len(film_producers') = Len(film_producers)
        /\ (lastOp' = "cleanup" /\ cleanedFilms = films) =>
              Len(film_authors') = Len(film_authors) ]_vars

\* C5 witness: both scripts have run again on unchanged rows, with links stored.
C5_Witness ==
    /\ reran = {"normalize", "cleanup"}
    /\ Len(film_directors) >= 2
    /\ Len(film_writers) >= 1
    /\ Len(film_producers) >= 1
    /\ Len(film_authors) >= 2

\* C6: position is billing order.  For every film and role column the last
\* normalization run read, the k-th name of the column (pure-digit and empty
\* parts not counted) is linked to the film at position k, and the film has
\* no link at any other position or to any other person.
C6_PositionIsBillingOrder ==
    \A f \in 1..Len(normalizedFilms) : \A c \in RoleColumns :
        LET names == ColumnNames(normalizedFilms[f][c])
            table == RoleTable(c)
        IN  /\ \A k \in 1..Len(names) :
                  \E r \in 1..Len(table) :
                      /\ table[r].film_id = normalizedFilms[f].id
                      /\ table[r].position = k
                      /\ people[table[r].person_id].name = names[k]
            /\ \A r \in 1..Len(table) :
                  table[r].film_id = normalizedFilms[f].id =>
                      /\ table[r].position \in 1..Len(names)
                      /\ people[table[r].person_id].name = names[table[r].position]

\* C6 witness: a normalized director column where a pure-digit part and an
\* empty part precede the second name, which is linked at position 2.
C6_Witness ==
    \E f \in 1..Len(normalizedFilms) :
        LET parts == Split(normalizedFilms[f].director, "|") IN
        /\ normalizedFilms[f].director # NULL
        /\ Len(parts) >= 4
        /\ IsNamePart(Strip(parts[1]))
        /\ Len(Strip(parts[2])) = 0
        /\ IsDigit(Strip(parts[3]))
        /\ IsNamePart(Strip(parts[4]))
        /\ \E r \in 1..Len(film_directors) :
               /\ film_directors[r].film_id = normalizedFilms[f].id
               /\ film_directors[r].position = 2
               /\ people[film_directors[r].person_id].name = Strip(parts[4])

(***************************************************************************)
(* Text of the vocabulary scripts: literals, ordering, regular expressions *)
(***************************************************************************)
\* a string literal of the source as a text value
Chars(s) == [i \in 1..Len(s) |-> SubSeq(s, i, i)]

\* the printable ASCII characters in code point order, from U+0020 (the grave
\* accent, which a string of this language cannot hold, by its code point name)
Ascii ==
    Chars(" !") \o <<"\"">> \o Chars("#$%&'()*+,-./0123456789:;<=>?@")
    \o Chars("ABCDEFGHIJKLMNOPQRSTUVWXYZ[") \o <<"\\">>
    \o Chars("]^_") \o <<"U+0060">> \o Chars("abcdefghijklmnopqrstuvwxyz{|}~")

\* ord(c) - 31 for the characters of Ascii (the order is what sorted() uses)
CodePoint(c) == CHOOSE i \in 1..Len(Ascii) : Ascii[i] = c

\* a < b for str
RECURSIVE TextLess(_, _)
TextLess(a, b) ==
    IF Len(b) = 0 THEN FALSE
    ELSE IF Len(a) = 0 THEN TRUE
    ELSE IF Head(a) = Head(b) THEN TextLess(Tail(a), Tail(b))
    ELSE CodePoint(Head(a)) < CodePoint(Head(b))

\* sorted(S) for a set of str
RECURSIVE Sorted(_)
Sorted(S) ==
    IF S = {} THEN <<>>
    ELSE LET least == CHOOSE a \in S : \A b \in S \ {a} : TextLess(a, b)
         IN  <<least>> \o Sorted(S \ {least})

\* needle in s, for a two-character needle such as '--'
Find(s, needle) ==
    {i \in 1..(Len(s) - Len(needle) + 1) : SubSeq(s, i, i + Len(needle) - 1) = needle}

\* s.split(needle)[0]
SplitFirst(s, needle) ==
    IF Find(s, needle) = {} THEN s ELSE SubSeq(s, 1, Min(Find(s, needle)) - 1)

\* The regular expressions of the scripts are built from five forms.
Str(cs) == [op |-> "str", chars |-> cs]
AnyStar == [op |-> "anystar"]
WordBoundary == [op |-> "boundary"]
Alt(branches) == [op |-> "alt", items |-> branches]
Cat(pieces) == [op |-> "cat", items |-> pieces]

\* \b at position i of s: exactly one side of the position is a \w character
AtWordBoundary(s, i) ==
    (i > 1 /\ IsWordChar(s[i - 1])) # (i <= Len(s) /\ IsWordChar(s[i]))

\* whether the pieces, one after the other, match s from position i on (the
\* match may end anywhere): the backtracking search of the re module
RECURSIVE MatchFrom(_, _, _)
MatchFrom(pieces, s, i) ==
    IF Len(pieces) = 0 THEN TRUE
    ELSE LET node == Head(pieces)
             rest == Tail(pieces)
         IN  CASE node.op = "str" ->
                      /\ i + Len(node.chars) - 1 <= Len(s)
                      /\ \A k \in 1..Len(node.chars) : s[i + k - 1] = node.chars[k]
                      /\ MatchFrom(rest, s, i + Len(node.chars))
               [] node.op = "anystar" ->
                      \E j \in i..(Len(s) + 1) : MatchFrom(rest, s, j)
               [] node.op = "boundary" ->
                      AtWordBoundary(s, i) /\ MatchFrom(rest, s, i)
               [] node.op = "alt" ->
                      \E b \in 1..Len(node.items) :
                          MatchFrom(<<node.items[b]>> \o rest, s, i)
               [] node.op = "cat" -> MatchFrom(node.items \o rest, s, i)

\* re.match(pattern, s) is not None
ReMatch(pattern, s) == MatchFrom(<<pattern>>, s, 1)

(***************************************************************************)
(* The vocabulary, the mapping rules and the patterns, as the scripts       *)
(* spell them                                                              *)
(***************************************************************************)
\* populate_controlled_vocabulary: the terms of `vocabulary`, in insertion order
VocabularyTerms ==
    << Chars("Mothers and daughters"), Chars("Mothers and sons"),
       Chars("Fathers and daughters"), Chars("Fathers and sons"),
       Chars("Motherhood"), Chars("Fatherhood"),
       Chars("Brothers and sisters"), Chars("Sisters"), Chars("Brothers"),
       Chars("Orphans"), Chars("Adoption"), Chars("Family relationships"),
       Chars("Family life"), Chars("Aunts"), Chars("Uncles"),
       Chars("Cousins"), Chars("Grandmothers"), Chars("Grandfathers"),
       Chars("Stepmothers"), Chars("Stepfathers"), Chars("Marriage"),
       Chars("Engagements"), Chars("Weddings"), Chars("Divorce"),
       Chars("Widows"), Chars("Widowers"), Chars("Infidelity"),
       Chars("Bigamy"), Chars("Romance"), Chars("Courtship"),
       Chars("Physicians"), Chars("Lawyers"), Chars("Schoolteachers"),
       Chars("Nurses"), Chars("Ministers"), Chars("Writers"),
       Chars("Artists"), Chars("Farmers"), Chars("Servants"),
       Chars("African Americans"), Chars("Racism"),
       Chars("Class distinction"), Chars("Poverty"), Chars("Slavery"),
       Chars("Prejudice"), Chars("Spinsters"), Chars("Working women"),
       Chars("Women in business"), Chars("Chorus girls"), Chars("Childbirth"),
       Chars("Small town life"), Chars("New York City"), Chars("Plantations"),
       Chars("Farms"), Chars("Murder"), Chars("Trials"),
       Chars("False accusations"), Chars("Rescues"), Chars("Fires"),
       Chars("Automobile accidents"), Chars("Kidnapping"),
       Chars("Death and dying"), Chars("Self-sacrifice") >>

\* create_afi_mappings: the rules of `mappings` (subject, term, confidence in
\* hundredths), in list order
AfiMappingRules ==
    << <<Chars("Mothers and daughters"), Chars("Mothers and daughters"), 100>>,
       <<Chars("Mothers and sons"), Chars("Mothers and sons"), 100>>,
       <<Chars("Fathers and daughters"), Chars("Fathers and daughters"), 100>>,
       <<Chars("Orphans"), Chars("Orphans"), 100>>,
       <<Chars("Marriage"), Chars("Marriage"), 100>>,
       <<Chars("Physicians"), Chars("Physicians"), 100>>,
       <<Chars("Lawyers"), Chars("Lawyers"), 100>>,
       <<Chars("African Americans"), Chars("African Americans"), 100>>,
       <<Chars("Racism"), Chars("Racism"), 100>>,
       <<Chars("Murder"), Chars("Murder"), 100>>,
       <<Chars("Family honor"), Chars("Family relationships"), 90>>,
       <<Chars("Mothers-in-law"), Chars("Family relationships"), 90>>,
       <<Chars("Fathers-in-law"), Chars("Family relationships"), 90>>,
       <<Chars("Schoolmasters"), Chars("Schoolteachers"), 90>>,
       <<Chars("Tutors"), Chars("Schoolteachers"), 90>>,
       <<Chars("Bigamy"), Chars("Marriage"), 80>>,
       <<Chars("Desertion (Marital)"), Chars("Marriage"), 80>>,
       <<Chars("Marriage--Arranged"), Chars("Marriage"), 80>>,
       <<Chars("Marriage--Secret"), Chars("Marriage"), 80>>,
       <<Chars("Indians of North America"), Chars("Native Americans"), 95>>,
       <<Chars("Spinsters"), Chars("Spinsters"), 100>>,
       <<Chars("Handicapped"), Chars("Persons with disabilities"), 95>> >>

\* add_missing_controlled_terms: the terms of `new_terms`, in insertion order
NewTerms ==
    << Chars("Children"), Chars("Women physicians"), Chars("Women lawyers"),
       Chars("Actresses"), Chars("Rural life"), Chars("Urban life"),
       Chars("Boarding houses"), Chars("Deception"), Chars("Secrets"),
       Chars("Inheritance"), Chars("Blackmail"), Chars("Escapes"),
       Chars("Jealousy"), Chars("Revenge"), Chars("Ambition"),
       Chars("Mental illness"), Chars("Alcoholism"), Chars("World War I"),
       Chars("Roaring Twenties"), Chars("Great Depression"),
       Chars("World War II") >>

\* create_expanded_mappings: `direct_mappings` (subject, term), in dict order
direct_mappings ==
    << <<Chars("Children"), Chars("Children")>>,
       <<Chars("Mothers"), Chars("Motherhood")>>,
       <<Chars("Fathers"), Chars("Fatherhood")>>,
       <<Chars("Brothers"), Chars("Brothers")>>,
       <<Chars("Sisters"), Chars("Sisters")>>,
       <<Chars("Weddings"), Chars("Weddings")>>,
       <<Chars("Nurses"), Chars("Nurses")>>,
       <<Chars("Ministers"), Chars("Ministers")>>,
       <<Chars("Artists"), Chars("Artists")>>,
       <<Chars("Farmers"), Chars("Farmers")>>,
       <<Chars("Servants"), Chars("Servants")>>,
       <<Chars("Trials"), Chars("Trials")>>,
       <<Chars("Kidnapping"), Chars("Kidnapping")>>,
       <<Chars("Death and dying"), Chars("Death and dying")>>,
       <<Chars("Childbirth"), Chars("Childbirth")>>,
       <<Chars("Divorce"), Chars("Divorce")>>,
       <<Chars("Courtship"), Chars("Courtship")>> >>

\* create_expanded_mappings: `pattern_mappings` (pattern, term, confidence in
\* hundredths), in list order
pattern_mappings ==
    << [pattern |->
            Cat(<<AnyStar, WordBoundary, Alt(<<Str(Chars("mother")),
                Str(Chars("maternal"))>>), WordBoundary, AnyStar>>),
        term |-> Chars("Motherhood"), confidence |-> 80],
       [pattern |->
            Cat(<<AnyStar, WordBoundary, Alt(<<Str(Chars("father")),
                Str(Chars("paternal"))>>), WordBoundary, AnyStar>>),
        term |-> Chars("Fatherhood"), confidence |-> 80],
       [pattern |->
            Cat(<<AnyStar, WordBoundary, Str(Chars("brother")), AnyStar,
                Str(Chars("sister")), WordBoundary, AnyStar>>),
        term |-> Chars("Brothers and sisters"), confidence |-> 90],
       [pattern |->
            Cat(<<AnyStar, WordBoundary, Alt(<<Str(Chars("grandparent")),
                Str(Chars("grandmother")), Str(Chars("grandfather"))>>),
                WordBoundary, AnyStar>>),
        term |-> Chars("Family relationships"), confidence |-> 80],
       [pattern |->
            Cat(<<AnyStar, WordBoundary, Alt(<<Str(Chars("aunt")),
                Str(Chars("uncle")), Str(Chars("cousin")),
                Str(Chars("nephew")), Str(Chars("niece"))>>), WordBoundary,
                AnyStar>>),
        term |-> Chars("Family relationships"), confidence |-> 80],
       [pattern |->
            Cat(<<AnyStar, WordBoundary, Str(Chars("family")),
                WordBoundary, AnyStar>>),
        term |-> Chars("Family relationships"), confidence |-> 80],
       [pattern |->
            Cat(<<AnyStar, WordBoundary, Alt(<<Str(Chars("wedding")),
                Str(Chars("marriage")), Str(Chars("marital")),
                Str(Chars("matrimony"))>>), WordBoundary, AnyStar>>),
        term |-> Chars("Marriage"), confidence |-> 80],
       [pattern |->
            Cat(<<AnyStar, WordBoundary, Alt(<<Str(Chars("engagement")),
                Str(Chars("betrothal")), Str(Chars("fiancÃ©"))>>),
                WordBoundary, AnyStar>>),
        term |-> Chars("Engagements"), confidence |-> 80],
       [pattern |->
            Cat(<<AnyStar, WordBoundary, Alt(<<Str(Chars("widow")),
                Str(Chars("widower"))>>), WordBoundary, AnyStar>>),
        term |-> Chars("Widows"), confidence |-> 80],
       [pattern |->
            Cat(<<AnyStar, WordBoundary, Alt(<<Str(Chars("divorce")),
                Str(Chars("separation"))>>), WordBoundary, AnyStar>>),
        term |-> Chars("Divorce"), confidence |-> 80],
       [pattern |->
            Cat(<<AnyStar, WordBoundary, Alt(<<Str(Chars("doctor")),
                Str(Chars("physician")), Str(Chars("medical"))>>),
                WordBoundary, AnyStar>>),
        term |-> Chars("Physicians"), confidence |-> 80],
       [pattern |->
            Cat(<<AnyStar, WordBoundary, Alt(<<Str(Chars("lawyer")),
                Str(Chars("attorney")), Str(Chars("legal"))>>), WordBoundary,
                AnyStar>>),
        term |-> Chars("Lawyers"), confidence |-> 80],
       [pattern |->
            Cat(<<AnyStar, WordBoundary, Alt(<<Str(Chars("teacher")),
                Str(Chars("professor")), Str(Chars("tutor"))>>), WordBoundary,
                AnyStar>>),
        term |-> Chars("Schoolteachers"), confidence |-> 80],
       [pattern |->
            Cat(<<AnyStar, WordBoundary, Alt(<<Str(Chars("nurse")),
                Str(Chars("nursing"))>>), WordBoundary, AnyStar>>),
        term |-> Chars("Nurses"), confidence |-> 80],
       [pattern |->
            Cat(<<AnyStar, WordBoundary, Alt(<<Str(Chars("minister")),
                Str(Chars("priest")), Str(Chars("clergy")),
                Str(Chars("reverend"))>>), WordBoundary, AnyStar>>),
        term |-> Chars("Ministers"), confidence |-> 80],
       [pattern |->
            Cat(<<AnyStar, WordBoundary, Alt(<<Str(Chars("writer")),
                Str(Chars("author")), Str(Chars("journalist"))>>),
                WordBoundary, AnyStar>>),
        term |-> Chars("Writers"), confidence |-> 80],
       [pattern |->
            Cat(<<AnyStar, WordBoundary, Alt(<<Str(Chars("racism")),
                Str(Chars("racial")), Str(Chars("prejudice"))>>),
                WordBoundary, AnyStar>>),
        term |-> Chars("Racism"), confidence |-> 90],
       [pattern |->
            Cat(<<AnyStar, WordBoundary, Alt(<<Str(Chars("poverty")),
                Str(Chars("poor")), Str(Chars("destitute"))>>), WordBoundary,
                AnyStar>>),
        term |-> Chars("Poverty"), confidence |-> 90],
       [pattern |->
            Cat(<<AnyStar, WordBoundary, Alt(<<Str(Chars("class")),
                Str(Chars("social status"))>>), WordBoundary, AnyStar>>),
        term |-> Chars("Class distinction"), confidence |-> 80],
       [pattern |->
            Cat(<<AnyStar, WordBoundary, Str(Chars("slave")), AnyStar>>),
        term |-> Chars("Slavery"), confidence |-> 90],
       [pattern |->
            Cat(<<AnyStar, WordBoundary, Alt(<<Str(Chars("murder")),
                Str(Chars("homicide")), Str(Chars("killing"))>>),
                WordBoundary, AnyStar>>),
        term |-> Chars("Murder"), confidence |-> 90],
       [pattern |->
            Cat(<<AnyStar, WordBoundary, Alt(<<Str(Chars("trial")),
                Str(Chars("court")), Str(Chars("judge"))>>), WordBoundary,
                AnyStar>>),
        term |-> Chars("Trials"), confidence |-> 80],
       [pattern |->
            Cat(<<AnyStar, WordBoundary, Alt(<<Str(Chars("accusation")),
                Str(Chars("accused")), Str(Chars("blame"))>>), WordBoundary,
                AnyStar>>),
        term |-> Chars("False accusations"), confidence |-> 80],
       [pattern |->
            Cat(<<AnyStar, WordBoundary, Alt(<<Str(Chars("kidnap")),
                Str(Chars("abduct"))>>), WordBoundary, AnyStar>>),
        term |-> Chars("Kidnapping"), confidence |-> 90],
       [pattern |->
            Cat(<<AnyStar, WordBoundary, Alt(<<Str(Chars("death")),
                Str(Chars("dying")), Str(Chars("dead")),
                Str(Chars("funeral"))>>), WordBoundary, AnyStar>>),
        term |-> Chars("Death and dying"), confidence |-> 80],
       [pattern |->
            Cat(<<AnyStar, WordBoundary, Alt(<<Str(Chars("suicide"))>>),
                WordBoundary, AnyStar>>),
        term |-> Chars("Death and dying"), confidence |-> 70],
       [pattern |->
            Cat(<<AnyStar, WordBoundary, Alt(<<Str(Chars("spinster")),
                Str(Chars("old maid"))>>), WordBoundary, AnyStar>>),
        term |-> Chars("Spinsters"), confidence |-> 90],
       [pattern |->
            Cat(<<AnyStar, WordBoundary,
                Alt(<<Str(Chars("working women")),
                Str(Chars("career women"))>>), WordBoundary, AnyStar>>),
        term |-> Chars("Working women"), confidence |-> 90],
       [pattern |->
            Cat(<<AnyStar, WordBoundary, Alt(<<Str(Chars("chorus girl")),
                Cat(<<Str(Chars("dance")), AnyStar, Str(Chars("girl"))>>),
                Str(Chars("cigarette girl"))>>), WordBoundary, AnyStar>>),
        term |-> Chars("Chorus girls"), confidence |-> 80] >>

(***************************************************************************)
(* migrate-vocab.py                                                        *)
(***************************************************************************)
\* term in controlled_terms, the dict of term -> term_id read from the table
HasTerm(terms, term) == \E i \in 1..Len(terms) : terms[i] = term

TermId(terms, term) == CHOOSE i \in 1..Len(terms) : terms[i] = term

\* the elements of s at the indices in I, in order
AtIndices(s, I) ==
    [k \in 1..Cardinality(I) |-> s[CHOOSE i \in I : Cardinality({j \in I : j < i}) = k - 1]]

\* A loop of INSERTs into a table with a UNIQUE column, each IntegrityError
\* swallowed: the rows that get in are those whose key is not in the table
\* yet and that are the first of the loop with their key.
InsertedIndices(keys, rowKeys) ==
    {i \in 1..Len(rowKeys) :
        /\ rowKeys[i] \notin keys
        /\ \A j \in 1..(i - 1) : rowKeys[j] # rowKeys[i]}

\* the loop of INSERT INTO controlled_terms (term is UNIQUE)
InsertTerms(terms, new) == terms \o AtIndices(new, InsertedIndices(Range(terms), new))

\* the loop of INSERT INTO afi_to_controlled_mapping of create_afi_mappings and
\* of insert_mappings (afi_subject is UNIQUE): a mapping whose term is not in the
\* vocabulary is passed over
InsertMappings(table, terms, mappings) ==
    LET Known(m) == HasTerm(terms, m.controlled_term)
        Row(m) == [afi_subject |-> m.afi_subject,
                   controlled_term_id |-> TermId(terms, m.controlled_term),
                   confidence_score |-> m.confidence]
        Key(row) == row.afi_subject
        rows == Map(Row, SelectSeq(mappings, Known))
    IN  table \o AtIndices(rows,
                     InsertedIndices({table[r].afi_subject : r \in 1..Len(table)},
                                     Map(Key, rows)))

AfiMappings ==
    [i \in 1..Len(AfiMappingRules) |->
        [afi_subject |-> AfiMappingRules[i][1], controlled_term |-> AfiMappingRules[i][2],
         confidence |-> AfiMappingRules[i][3]]]

\* [s.strip() for s in subjects.split('|') if s.strip()]
SubjectTokens(subjects) == SelectSeq(Map(Strip, Split(subjects, "|")), NonEmpty)

\* the report, were the tokens of films.subjects not trimmed
UnmappedSubjectsUntrimmed(rows, mapping) ==
    UNION {Range(SelectSeq(Split(rows[f].subjects, "|"), NonEmpty)) :
              f \in {g \in 1..Len(rows) : rows[g].subjects # NULL}}
    \ {mapping[r].afi_subject : r \in 1..Len(mapping)}

\* generate_mapping_report: the subjects of the films table that have no mapping
UnmappedSubjects(rows, mapping) ==
    UNION {Range(SubjectTokens(rows[f].subjects)) :
              f \in {g \in 1..Len(rows) : rows[g].subjects # NULL}}
    \ {mapping[r].afi_subject : r \in 1..Len(mapping)}

\* the lines generate_mapping_report writes to unmapped_subjects.txt
ReportLines(unmapped) ==
    <<Chars("UNMAPPED AFI SUBJECTS"), [i \in 1..50 |-> "="], <<>>>> \o Sorted(unmapped)

\* python migrate-vocab.py: tables, vocabulary, mapping rules, report
MigrateVocab ==
    LET terms   == InsertTerms(controlled_terms, VocabularyTerms)
        mapping == InsertMappings(afi_to_controlled_mapping, terms, AfiMappings)
    IN  /\ tablesCreated' = TRUE
        /\ controlled_terms' = terms
        /\ afi_to_controlled_mapping' = mapping
        /\ unmapped_subjects_txt' = ReportLines(UnmappedSubjects(films, mapping))
        /\ lastOp' = "migrate"
        /\ UNCHANGED <<toolVars, films, people, film_directors, film_writers, film_producers,
                       authors, film_authors, reran, normalizedFilms, cleanedFilms,
                       film_subjects_controlled, expanded, computed, saves, parseVars>>

(***************************************************************************)
(* expand-mappings.py                                                      *)
(***************************************************************************)
\* [line.strip() for line in f if line.strip() and not line.startswith('=')]
IsSubjectLine(line) == Len(Strip(line)) > 0 /\ ~(Len(line) > 0 /\ line[1] = "=")

ReadUnmapped(lines) == Map(Strip, SelectSeq(lines, IsSubjectLine))

\* subject in direct_mappings, and direct_mappings[subject]
IsDirect(subject) == \E i \in 1..Len(direct_mappings) : direct_mappings[i][1] = subject

DirectTerm(subject) ==
    direct_mappings[CHOOSE i \in 1..Len(direct_mappings) : direct_mappings[i][1] = subject][2]

Mapping(subject, term, confidence) ==
    [afi_subject |-> subject, controlled_term |-> term, confidence |-> confidence]

\* the patterns that match the lowered subject and whose term is in the vocabulary
PatternHits(terms, subject) ==
    LET subject_lower == Lower(subject)
    IN  {i \in 1..Len(pattern_mappings) :
            /\ ReMatch(pattern_mappings[i].pattern, subject_lower)
            /\ HasTerm(terms, pattern_mappings[i].term)}

\* the branch for compound subjects such as "Marriage--Secret"
CompoundMapping(terms, subject) ==
    LET base_term == SplitFirst(subject, <<"-", "-">>)
    IN  IF Find(subject, <<"-", "-">>) = {} THEN <<>>
        ELSE IF HasTerm(terms, base_term) THEN <<Mapping(subject, base_term, 90)>>
        ELSE IF IsDirect(base_term) /\ HasTerm(terms, DirectTerm(base_term))
             THEN <<Mapping(subject, DirectTerm(base_term), 85)>>
        ELSE <<>>

\* the loop turn, were the patterns tried before the direct mappings
MapSubjectPatternsFirst(terms, subject) ==
    LET hits == PatternHits(terms, subject)
    IN  IF hits # {}
        THEN <<Mapping(subject, pattern_mappings[Min(hits)].term,
                       pattern_mappings[Min(hits)].confidence)>>
        ELSE IF IsDirect(subject) /\ HasTerm(terms, DirectTerm(subject))
        THEN <<Mapping(subject, DirectTerm(subject), 100)>>
        ELSE CompoundMapping(terms, subject)

\* the loop turn, were the pattern loop to go on after a match
MapSubjectEveryMatch(terms, subject) ==
    IF IsDirect(subject) /\ HasTerm(terms, DirectTerm(subject))
    THEN <<Mapping(subject, DirectTerm(subject), 100)>>
    ELSE LET hits == PatternHits(terms, subject)
             Hit(i) == Mapping(subject, pattern_mappings[i].term,
                               pattern_mappings[i].confidence)
         IN  IF hits # {}
             THEN Map(Hit, AtIndices([i \in 1..Len(pattern_mappings) |-> i], hits))
             ELSE CompoundMapping(terms, subject)

\* one turn of the loop over the unmapped subjects: the mappings it appends
MapSubject(terms, subject) ==
    IF IsDirect(subject) /\ HasTerm(terms, DirectTerm(subject))
    THEN <<Mapping(subject, DirectTerm(subject), 100)>>
    ELSE LET hits == PatternHits(terms, subject)
         IN  IF hits # {}
             THEN <<Mapping(subject, pattern_mappings[Min(hits)].term,
                            pattern_mappings[Min(hits)].confidence)>>
             ELSE CompoundMapping(terms, subject)

RECURSIVE MapSubjects(_, _, _)
MapSubjects(terms, unmapped, i) ==
    IF i > Len(unmapped) THEN <<>>
    ELSE MapSubject(terms, unmapped[i]) \o MapSubjects(terms, unmapped, i + 1)

create_expanded_mappings(terms, lines) == MapSubjects(terms, ReadUnmapped(lines), 1)

\* python expand-mappings.py: missing terms, expanded mappings, their insertion.
\* Without the tables the constructor's SELECT fails before anything is written.
ExpandMappings ==
    /\ tablesCreated
    /\ unmapped_subjects_txt # NULL
    /\ LET terms    == InsertTerms(controlled_terms, NewTerms)
           mappings == create_expanded_mappings(terms, unmapped_subjects_txt)
       IN  /\ controlled_terms' = terms
           /\ expanded' = mappings
           /\ afi_to_controlled_mapping' =
                  InsertMappings(afi_to_controlled_mapping, terms, mappings)
    /\ lastOp' = "expand"
    /\ UNCHANGED <<toolVars, films, people, film_directors, film_writers, film_producers,
                   authors, film_authors, reran, normalizedFilms, cleanedFilms,
                   tablesCreated, film_subjects_controlled, unmapped_subjects_txt,
                   computed, saves, parseVars>>

(***************************************************************************)
(* apply-controlled-terms.py                                               *)
(***************************************************************************)
\* subjects.count(subject)
Count(tokens, subject) == Cardinality({i \in 1..Len(tokens) : tokens[i] = subject})

\* the weight, were a confidence of exactly 0.9 to count as low
RelevanceAboveOnly(confidence, count) ==
    IF confidence > 90
    THEN (IF count > 1 THEN 3 ELSE 2)
    ELSE (IF count > 1 THEN 2 ELSE 1)

\* the relevance weight of a mapped token, from the confidence of its mapping
\* (in hundredths) and the number of times the token occurs in the film
Relevance(confidence, count) ==
    IF confidence >= 90
    THEN (IF count > 1 THEN 3 ELSE 2)
    ELSE (IF count > 1 THEN 2 ELSE 1)

\* subject in mappings, and mappings[subject], for the dict read from the table
IsMapped(mapping, subject) == \E r \in 1..Len(mapping) : mapping[r].afi_subject = subject

MappingOf(mapping, subject) ==
    mapping[CHOOSE r \in 1..Len(mapping) : mapping[r].afi_subject = subject]

\* the relevance the loop over the tokens of one film computes, token by token
Computed(mapping, film_id, tokens) ==
    LET Mapped(subject) == IsMapped(mapping, subject)
        Entry(subject) ==
            [film_id |-> film_id, subject |-> subject,
             term_id |-> MappingOf(mapping, subject).controlled_term_id,
             relevance |-> Relevance(MappingOf(mapping, subject).confidence_score,
                                     Count(tokens, subject))]
    IN  Map(Entry, SelectSeq(tokens, Mapped))

\* the assignment, were the last token of a term to overwrite the others
AssignLast(term_assignments, term_id, relevance) ==
    IF \E k \in 1..Len(term_assignments) : term_assignments[k].term_id = term_id
    THEN [k \in 1..Len(term_assignments) |->
             IF term_assignments[k].term_id = term_id
             THEN [term_id |-> term_id, relevance |-> relevance]
             ELSE term_assignments[k]]
    ELSE Append(term_assignments, [term_id |-> term_id, relevance |-> relevance])

\* term_assignments[term_id] = relevance, unless the term already has a
\* relevance at least as high; a dict keeps its keys in insertion order
KeepHighest(term_assignments, term_id, relevance) ==
    IF \E k \in 1..Len(term_assignments) : term_assignments[k].term_id = term_id
    THEN [k \in 1..Len(term_assignments) |->
             IF /\ term_assignments[k].term_id = term_id
                /\ term_assignments[k].relevance < relevance
             THEN [term_id |-> term_id, relevance |-> relevance]
             ELSE term_assignments[k]]
    ELSE Append(term_assignments, [term_id |-> term_id, relevance |-> relevance])

RECURSIVE TermAssignments(_, _, _)
TermAssignments(term_assignments, entries, i) ==
    IF i > Len(entries) THEN term_assignments
    ELSE TermAssignments(
             KeepHighest(term_assignments, entries[i].term_id, entries[i].relevance),
             entries, i + 1)

\* the insert, were the update of a stored pair to take the new relevance
StoreAssignmentLatest(table, film_id, term_id, relevance) ==
    IF \E r \in 1..Len(table) : table[r].film_id = film_id /\ table[r].term_id = term_id
    THEN [r \in 1..Len(table) |->
             IF table[r].film_id = film_id /\ table[r].term_id = term_id
             THEN [table[r] EXCEPT !.relevance_weight = relevance]
             ELSE table[r]]
    ELSE Append(table, [film_id |-> film_id, term_id |-> term_id,
                        relevance_weight |-> relevance])

\* INSERT INTO film_subjects_controlled and, on the IntegrityError of the
\* primary key (film_id, term_id), UPDATE ... SET relevance_weight = MAX(...)
StoreAssignment(table, film_id, term_id, relevance) ==
    IF \E r \in 1..Len(table) : table[r].film_id = film_id /\ table[r].term_id = term_id
    THEN [r \in 1..Len(table) |->
             IF table[r].film_id = film_id /\ table[r].term_id = term_id
             THEN [table[r] EXCEPT !.relevance_weight =
                      IF @ >= relevance THEN @ ELSE relevance]
             ELSE table[r]]
    ELSE Append(table, [film_id |-> film_id, term_id |-> term_id,
                        relevance_weight |-> relevance])

RECURSIVE StoreAssignments(_, _, _, _)
StoreAssignments(table, film_id, term_assignments, k) ==
    IF k > Len(term_assignments) THEN table
    ELSE StoreAssignments(
             StoreAssignment(table, film_id, term_assignments[k].term_id,
                             term_assignments[k].relevance),
             film_id, term_assignments, k + 1)

\* the loop over the films that have subjects: the table and the log of the
\* computed relevance after the rows from index i on
RECURSIVE TagFilms(_, _, _, _)
TagFilms(db, mapping, rows, i) ==
    IF i > Len(rows) THEN db
    ELSE IF rows[i].subjects = NULL THEN TagFilms(db, mapping, rows, i + 1)
    ELSE LET entries == Computed(mapping, rows[i].id, SubjectTokens(rows[i].subjects))
         IN  TagFilms([table |-> StoreAssignments(db.table, rows[i].id,
                                    TermAssignments(<<>>, entries, 1), 1),
                       computed |-> db.computed \o entries],
                      mapping, rows, i + 1)

\* python apply-controlled-terms.py.  Without the tables the query for the
\* mappings fails before anything is written.
ApplyControlledTerms ==
    /\ tablesCreated
    /\ LET db == TagFilms([table |-> film_subjects_controlled, computed |-> <<>>],
                          afi_to_controlled_mapping, films, 1)
       IN  /\ film_subjects_controlled' = db.table
           /\ computed' = db.computed
           /\ reran' = IF \E k \in 1..Len(db.computed), r \in 1..Len(film_subjects_controlled) :
                              /\ film_subjects_controlled[r].film_id = db.computed[k].film_id
                              /\ film_subjects_controlled[r].term_id = db.computed[k].term_id
                       THEN reran \cup {"tag"} ELSE reran
    /\ lastOp' = "tag"
    /\ UNCHANGED <<toolVars, films, people, film_directors, film_writers, film_producers,
                   authors, film_authors, normalizedFilms, cleanedFilms,
                   tablesCreated, controlled_terms, afi_to_controlled_mapping,
                   unmapped_subjects_txt, expanded, saves, parseVars>>

(***************************************************************************)
(* afi_collector.py: save_film_data                                        *)
(***************************************************************************)
Max(S) == CHOOSE x \in S : \A y \in S : x >= y

\* the keys of film_data that are no column of films
CompanyKeys == {"production_companies", "distribution_companies"}

\* INSERT OR REPLACE INTO films: the row of the same afi_movie_id is deleted
\* (a NULL afi_movie_id conflicts with nothing) and the new row takes the
\* rowid after the largest one the table held
ReplaceFilm(rows, film_data) ==
    LET Kept(row) == film_data.afi_movie_id = NULL
                     \/ row.afi_movie_id # film_data.afi_movie_id
        id == IF Len(rows) = 0 THEN 1 ELSE Max({rows[i].id : i \in 1..Len(rows)}) + 1
    IN  Append(SelectSeq(rows, Kept),
               [c \in (DOMAIN film_data \ CompanyKeys) \cup {"id"} |->
                   IF c = "id" THEN id ELSE film_data[c]])

\* film_id = cursor.lastrowid (line 196): the rowid of the row just inserted
LastRowId(rows) == rows[Len(rows)].id

\* film_data.get(key, [])
Companies(film_data, key) == IF key \in DOMAIN film_data THEN film_data[key] ELSE <<>>

\* the two loops of INSERT INTO production_companies (lines 198-209)
InsertCompanies(table, film_id, film_data) ==
    LET Rows(key, type) ==
            [i \in 1..Len(Companies(film_data, key)) |->
                [film_id |-> film_id, company_name |-> Companies(film_data, key)[i],
                 company_type |-> type]]
    IN  table \o Rows("production_companies", "production")
              \o Rows("distribution_companies", "distribution")

(***************************************************************************)
(* The vocabulary scripts over a collected catalogue: the films of a       *)
(* sample catalogue, saved again or added to by the collector up to        *)
(* MaxSaves times.                                                         *)
(***************************************************************************)
MaxSaves == 1

SampleSubjects ==
    << Chars("Marriage|Bigamy"),
       Chars("Bigamy|Wedding night| Wedding night |Zebras"),
       Chars("Death and dying|Murder trial|Divorce||Mothers--Sons"),
       Chars("Family honor|Family honor|Weddings--Secret|Mother love|Mothers"),
       NULL >>

\* the subjects of the films of each sample catalogue, by sample number
SampleCatalogues == {<<1, 2>>, <<3, 4>>, <<2, 5>>, <<4, 2>>}

\* the film the collector extracted for an AFI movie id, with these subjects
FilmData(movie_id, subjects) ==
    [afi_movie_id |-> movie_id, director |-> NULL, writer |-> NULL, producer |-> NULL,
     literary_credits |-> NULL, subjects |-> subjects]

\* the films the collector comes upon later, as (sample film, sample subjects):
\* the second film with other subjects, a third film, the first film without
\* subjects
SampleSaves == {<<2, 3>>, <<3, 1>>, <<1, 5>>}

\* collect_films_from_list reaching save_film_data for a film
SaveFilmData ==
    /\ saves < MaxSaves
    /\ \E d \in SampleSaves :
           LET film_data == FilmData(SampleMovieId(d[1]), SampleSubjects[d[2]])
               rows == ReplaceFilm(films, film_data)
           IN  /\ films' = rows
               /\ production_companies' =
                      InsertCompanies(production_companies, LastRowId(rows), film_data)
    /\ saves' = saves + 1
    /\ lastOp' = "save"
    /\ UNCHANGED <<exportVars, pageVars, cleanAuthorsVars, collectVars, people, film_directors, film_writers, film_producers, authors,
                   film_authors, reran, normalizedFilms, cleanedFilms, vocabVars,
                   parseVars>>

\* the films table after the collector saved the first n films of a catalogue
RECURSIVE Collected(_, _)
Collected(c, n) ==
    IF n = 0 THEN <<>>
    ELSE ReplaceFilm(Collected(c, n - 1),
                     FilmData(SampleMovieId(n), SampleSubjects[c[n]]))

VocabInit ==
    /\ \E c \in SampleCatalogues : films = Collected(c, Len(c))
    /\ people = <<>>
    /\ film_directors = <<>>
    /\ film_writers = <<>>
    /\ film_producers = <<>>
    /\ authors = <<>>
    /\ film_authors = <<>>
    /\ lastOp = "none"
    /\ reran = {}
    /\ normalizedFilms = <<>>
    /\ cleanedFilms = <<>>
    /\ field = NULL
    /\ results = <<>>
    /\ pc = "done"
    /\ NoVocabulary
    /\ saves = 0
    /\ ToolsIdle

VocabNext == MigrateVocab \/ ExpandMappings \/ ApplyControlledTerms \/ SaveFilmData

VocabSpec == VocabInit /\ [][VocabNext]_vars

(***************************************************************************)
(* Claims about the subject mapper                                         *)
(***************************************************************************)
\* the subjects an expansion run reads from the report
SubjectsRead == Range(ReadUnmapped(unmapped_subjects_txt))

\* the patterns that match a subject, whatever the vocabulary holds
Matching(subject) ==
    {i \in 1..Len(pattern_mappings) : ReMatch(pattern_mappings[i].pattern, Lower(subject))}

\* C7: an expansion run gives a subject that has an entry in direct_mappings
\* that mapping and no other, with confidence 1.0, whether or not a pattern
\* matches the subject.
C7_DirectMappingWins ==
    [][lastOp' = "expand" =>
          \A s \in SubjectsRead :
              IsDirect(s) =>
                  /\ Cardinality({k \in 1..Len(expanded') : expanded'[k].afi_subject = s}) = 1
                  /\ \A k \in 1..Len(expanded') :
                         expanded'[k].afi_subject = s =>
                             /\ expanded'[k].controlled_term = DirectTerm(s)
                             /\ expanded'[k].confidence = 100]_vars

\* an expansion run has mapped a subject that has a direct mapping and that a
\* pattern matches as well
C7_Witness ==
    /\ lastOp = "expand"
    /\ \E k \in 1..Len(expanded) :
           /\ IsDirect(expanded[k].afi_subject)
           /\ Matching(expanded[k].afi_subject) # {}
           /\ expanded[k].confidence = 100

\* C8: an expansion run gives a subject without a direct mapping the term and
\* the confidence of the first pattern of the list that matches it, and gives
\* no subject more than one mapping.
C8_FirstMatchingPattern ==
    [][lastOp' = "expand" =>
          \A s \in SubjectsRead :
              /\ Cardinality({k \in 1..Len(expanded') : expanded'[k].afi_subject = s}) <= 1
              /\ (~IsDirect(s) /\ Matching(s) # {}) =>
                     \E k \in 1..Len(expanded') :
                         /\ expanded'[k].afi_subject = s
                         /\ expanded'[k].controlled_term =
                                pattern_mappings[Min(Matching(s))].term
                         /\ expanded'[k].confidence =
                                pattern_mappings[Min(Matching(s))].confidence]_vars

\* an expansion run has mapped a subject that two patterns with different
\* terms match
C8_Witness ==
    /\ lastOp = "expand"
    /\ \E k \in 1..Len(expanded) :
           LET s == expanded[k].afi_subject
           IN  /\ ~IsDirect(s)
               /\ \E i, j \in Matching(s) :
                      /\ i < j
                      /\ pattern_mappings[i].term # pattern_mappings[j].term
               /\ expanded[k].controlled_term = pattern_mappings[Min(Matching(s))].term

(***************************************************************************)
(* Claims about the tagger                                                 *)
(***************************************************************************)
\* the films rows that have subjects
FilmsWithSubjects == {f \in 1..Len(films) : films[f].subjects # NULL}

TermIds == 1..Len(controlled_terms)

\* the weights stored in a table for a (film, term) pair
StoredWeights(table, film_id, term_id) ==
    {r \in 1..Len(table) : table[r].film_id = film_id /\ table[r].term_id = term_id}

\* the relevance a run computed for the tokens of a film that map to a term
ComputedWeights(log, film_id, term_id) ==
    {log[k].relevance :
        k \in {j \in 1..Len(log) : log[j].film_id = film_id /\ log[j].term_id = term_id}}

\* C9: after a tagging run, a (film, term) pair some token of the film maps to
\* has one stored weight, the largest of the weights computed for the film's
\* tokens that map to the term and of the weight the pair had before the
\* run; the weight of every other pair is as it was.
C9_StoredWeightIsTheMaximum ==
    [][lastOp' = "tag" =>
          \A f \in FilmsWithSubjects : \A t \in TermIds :
              LET id  == films[f].id
                  old == StoredWeights(film_subjects_controlled, id, t)
                  new == StoredWeights(film_subjects_controlled', id, t)
                  W   == ComputedWeights(computed', id, t)
              IN  IF W = {}
                  THEN {film_subjects_controlled'[r].relevance_weight : r \in new}
                       = {film_subjects_controlled[r].relevance_weight : r \in old}
                  ELSE /\ Cardinality(new) = 1
                       /\ \A r \in new :
                              film_subjects_controlled'[r].relevance_weight =
                                  Max(W \cup {film_subjects_controlled[q].relevance_weight :
                                                 q \in old})]_vars

\* a tagging run that met a stored pair has computed two different weights for
\* one (film, term) pair, and the pair holds the larger
C9_Witness ==
    /\ lastOp = "tag"
    /\ "tag" \in reran
    /\ \E f \in FilmsWithSubjects : \E t \in TermIds :
           /\ Cardinality(ComputedWeights(computed, films[f].id, t)) > 1
           /\ \E r \in StoredWeights(film_subjects_controlled, films[f].id, t) :
                  film_subjects_controlled[r].relevance_weight =
                      Max(ComputedWeights(computed, films[f].id, t))

\* the confidence of the mapping of a subject, in hundredths
ConfidenceOf(subject) ==
    LET r == CHOOSE q \in 1..Len(afi_to_controlled_mapping) :
                 afi_to_controlled_mapping[q].afi_subject = subject
    IN  afi_to_controlled_mapping[r].confidence_score

\* the number of times a token occurs among the tokens of a film
Occurrences(f, subject) ==
    Cardinality({i \in 1..Len(RefParts(films[f].subjects)) :
                    RefParts(films[f].subjects)[i] = subject})

\* 1, plus one for a confidence of at least 0.9, plus one for a token that
\* occurs more than once
SpecifiedWeight(confidence, occurrences) ==
    1 + (IF confidence >= 90 THEN 1 ELSE 0) + (IF occurrences > 1 THEN 1 ELSE 0)

\* C10: a tagging run computes, for every token of a film that has a mapping,
\* the weight 1, plus one if the confidence of the mapping is at least 0.9,
\* plus one if the token occurs more than once in the film.
C10_RelevanceWeight ==
    [][lastOp' = "tag" =>
          \A f \in FilmsWithSubjects :
              \A s \in Range(RefParts(films[f].subjects)) :
                  IsMapped(afi_to_controlled_mapping, s) =>
                      /\ \E k \in 1..Len(computed') :
                             computed'[k].film_id = films[f].id /\ computed'[k].subject = s
                      /\ \A k \in 1..Len(computed') :
                             (computed'[k].film_id = films[f].id /\ computed'[k].subject = s)
                             => computed'[k].relevance =
                                    SpecifiedWeight(ConfidenceOf(s), Occurrences(f, s))]_vars

\* a tagging run has computed every weight: 3; 2 for a confidence of exactly
\* 0.9; 2 for a repeated token of lower confidence; 1
C10_Witness ==
    /\ lastOp = "tag"
    /\ \E k \in 1..Len(computed) : computed[k].relevance = 3
    /\ \E k \in 1..Len(computed) :
           computed[k].relevance = 2 /\ ConfidenceOf(computed[k].subject) = 90
    /\ \E k \in 1..Len(computed) :
           computed[k].relevance = 2 /\ ConfidenceOf(computed[k].subject) < 90
    /\ \E k \in 1..Len(computed) : computed[k].relevance = 1

(***************************************************************************)
(* Claims about unmapped subjects                                          *)
(***************************************************************************)
\* the distinct trimmed non-empty tokens of the subjects of the films
AllTokens == UNION {Range(RefParts(films[f].subjects)) : f \in FilmsWithSubjects}

\* the subjects that have a row in a mapping table
MappedSubjects(mapping) == {mapping[r].afi_subject : r \in 1..Len(mapping)}

\* the subject lines of a report, after its three lines of heading
ReportedSubjects(lines) == SubSeq(lines, 4, Len(lines))

\* C11: a tagging run computes nothing for a token that has no mapping row
\* and adds or changes an association of a film only for a term that a mapped
\* token of that film maps to; the report a migration run writes lists, once
\* each, exactly the trimmed non-empty tokens of films.subjects that have no
\* mapping row after the run.
C11_UnmappedTokensAreReportedNotTagged ==
    [][/\ lastOp' = "tag" =>
              /\ \A k \in 1..Len(computed') :
                     computed'[k].subject \in MappedSubjects(afi_to_controlled_mapping)
              /\ \A r \in 1..Len(film_subjects_controlled') :
                     LET row == film_subjects_controlled'[r]
                     IN  row \notin Range(film_subjects_controlled) =>
                             \E f \in FilmsWithSubjects :
                                 /\ films[f].id = row.film_id
                                 /\ \E s \in Range(RefParts(films[f].subjects)) :
                                        /\ IsMapped(afi_to_controlled_mapping, s)
                                        /\ MappingOf(afi_to_controlled_mapping, s)
                                               .controlled_term_id = row.term_id
       /\ lastOp' = "migrate" =>
              LET reported == ReportedSubjects(unmapped_subjects_txt')
              IN  /\ Range(reported) = AllTokens \ MappedSubjects(afi_to_controlled_mapping')
                  /\ Cardinality(Range(reported)) = Len(reported)]_vars

\* a tagging run has tagged a film that also has a token without a mapping
\* row, a token the report written before lists; the film has no association
\* other than those of its mapped tokens
C11_Witness ==
    /\ lastOp = "tag"
    /\ unmapped_subjects_txt # NULL
    /\ \E f \in FilmsWithSubjects :
           /\ \E s \in Range(RefParts(films[f].subjects)) :
                  /\ ~IsMapped(afi_to_controlled_mapping, s)
                  /\ s \in Range(ReportedSubjects(unmapped_subjects_txt))
           /\ \E r \in 1..Len(film_subjects_controlled) :
                  film_subjects_controlled[r].film_id = films[f].id
           /\ Cardinality({r \in 1..Len(film_subjects_controlled) :
                              film_subjects_controlled[r].film_id = films[f].id})
                  < Cardinality(Range(RefParts(films[f].subjects)))

(***************************************************************************)
(* db-to-json.py: the documents of the export                              *)
(***************************************************************************)
\* the facet of each term of `vocabulary`, in insertion order
VocabularyFacets ==
    [i \in 1..20 |-> Chars("Family Relations")] \o
    [i \in 1..10 |-> Chars("Marital Relations")] \o
    [i \in 1..9 |-> Chars("Professions")] \o
    [i \in 1..6 |-> Chars("Social Issues")] \o
    [i \in 1..5 |-> Chars("Women-Specific")] \o
    [i \in 1..4 |-> Chars("Settings")] \o
    [i \in 1..9 |-> Chars("Plot Elements")]

\* the facet of each term of `new_terms`, in insertion order
NewTermFacets ==
    << Chars("Family Relations"), Chars("Women-Specific"),
       Chars("Women-Specific"), Chars("Women-Specific"), Chars("Settings"),
       Chars("Settings"), Chars("Settings"), Chars("Plot Elements"),
       Chars("Plot Elements"), Chars("Plot Elements"),
       Chars("Plot Elements"), Chars("Plot Elements"),
       Chars("Emotions/States"), Chars("Emotions/States"),
       Chars("Emotions/States"), Chars("Health/Disability"),
       Chars("Health/Disability"), Chars("Historical Periods"),
       Chars("Historical Periods"), Chars("Historical Periods"),
       Chars("Historical Periods") >>

\* the facet column of the controlled_terms row of a term
FacetOf(term) ==
    LET all == VocabularyTerms \o NewTerms
    IN  (VocabularyFacets \o NewTermFacets)[CHOOSE i \in 1..Len(all) : all[i] = term]

\* a column of text, NULL read as None
JColumn(v) == IF v = NULL THEN JNull ELSE JText(v)

Pair(key, value) == [key |-> key, value |-> value]

\* d[key] = value
DictSet(d, key, value) ==
    IF \E i \in 1..Len(d) : d[i].key = key
    THEN [i \in 1..Len(d) |-> IF d[i].key = key THEN Pair(key, value) ELSE d[i]]
    ELSE Append(d, Pair(key, value))

HasKey(d, key) == \E i \in 1..Len(d) : d[i].key = key

\* d[key], for a key of d
DictGet(d, key) == d[CHOOSE i \in 1..Len(d) : d[i].key = key].value

\* the clean-up, were it to drop every false value
DropFalsy(d) ==
    LET Kept(p) == /\ p.value.type # "null"
                   /\ p.value.type \in {"list", "text"} => Len(p.value.value) > 0
    IN  SelectSeq(d, Kept)

\* {k: v for k, v in d.items() if v is not None}
DropNone(d) == LET Kept(p) == p.value.type # "null" IN SelectSeq(d, Kept)

\* the rows of a sequence, the row at i before the row at j when <<i, j>> is
\* in before (a strict total order on the indices)
OrderBy(rows, before) ==
    [k \in 1..Len(rows) |->
        rows[CHOOSE i \in 1..Len(rows) :
                 Cardinality({j \in 1..Len(rows) : <<j, i>> \in before}) = k - 1]]

\* the columns of a films row that the model keeps, in schema order
FilmColumns ==
    <<"id", "afi_movie_id", "title", "release_year", "director", "writer", "producer",
      "subjects", "literary_credits", "survival_status">>

\* whether ensure_columns_exist of import-prepopulated.py has added the
\* survival columns to the films table
HasSurvivalColumn(rows) == \A f \in 1..Len(rows) : "survival_status" \in DOMAIN rows[f]

\* dict(row) of SELECT * FROM films
FilmDict(row) ==
    LET Present(c) == c \in DOMAIN row
        Column(c) == Pair(c, IF c \in {"id", "release_year"} THEN JInt(row[c])
                             ELSE JColumn(row[c]))
    IN  Map(Column, SelectSeq(FilmColumns, Present))

\* the people table and the authors table exist once the script that creates
\* them has run
HasPeopleTable == normalizedFilms # <<>>

HasAuthorsTable == cleanedFilms # <<>>

\* the pairs of indices of a sequence
IndexPairs(rows) == (1..Len(rows)) \X (1..Len(rows))

\* SELECT ... FROM films ORDER BY release_year, title: rows that tie come in
\* rowid order
FilmsInRowidOrder == films

FilmsOrdered ==
    OrderBy(films,
            {p \in IndexPairs(films) :
                LET a == films[p[1]]
                    b == films[p[2]]
                IN  \/ a.release_year < b.release_year
                    \/ /\ a.release_year = b.release_year
                       /\ \/ TextLess(a.title, b.title)
                          \/ a.title = b.title /\ p[1] < p[2]})

\* (SELECT json_group_array(json_object('name', p.name, 'position', x.position))
\*  FROM <links> x JOIN people p ... WHERE x.film_id = f.id ORDER BY x.position):
\* the ORDER BY sorts the one row the aggregate returns, and the array takes
\* the links as SQLite visits them, along the index of the primary key
\* (film_id, person_id, position)
RoleData(links, film_id) ==
    LET OfFilm(l) == l.film_id = film_id
        rows == SelectSeq(links, OfFilm)
        Entry(l) == JDict(<<Pair("name", JText(people[l.person_id].name)),
                            Pair("position", JInt(l.position))>>)
    IN  Map(Entry,
            OrderBy(rows,
                    {p \in IndexPairs(rows) :
                        \/ rows[p[1]].person_id < rows[p[2]].person_id
                        \/ /\ rows[p[1]].person_id = rows[p[2]].person_id
                           /\ rows[p[1]].position < rows[p[2]].position}))

\* ' & '.join([d['name'] for d in data])
JoinedNames(data) ==
    LET Name(d) == DictGet(d.value, "name").value
    IN  Join(Map(Name, data), Chars(" & "))

\* film['directors'] = data; film['director'] = the joined names.  The JSON
\* text of an empty array is '[]', a true value, so the fallback branch to the
\* original column is never taken.
WithRole(film, listKey, scalarKey, data) ==
    DictSet(DictSet(film, listKey, JList(data)), scalarKey, JText(JoinedNames(data)))

\* the controlled subjects of a film: ORDER BY relevance_weight DESC, term
ControlledSubjects(film_id) ==
    LET OfFilm(r) == r.film_id = film_id
        rows == SelectSeq(film_subjects_controlled, OfFilm)
        Entry(r) == JDict(<<Pair("term", JText(controlled_terms[r.term_id])),
                            Pair("facet", JText(FacetOf(controlled_terms[r.term_id]))),
                            Pair("weight", JInt(r.relevance_weight))>>)
    IN  Map(Entry,
            OrderBy(rows,
                    {p \in IndexPairs(rows) :
                        \/ rows[p[1]].relevance_weight > rows[p[2]].relevance_weight
                        \/ /\ rows[p[1]].relevance_weight = rows[p[2]].relevance_weight
                           /\ TextLess(controlled_terms[rows[p[1]].term_id],
                                       controlled_terms[rows[p[2]].term_id])}))

\* film['authors'], from the literary_credits column
FilmAuthors(credits) ==
    IF Truthy(credits) /\ HasPipe(credits)
    THEN Map(JText, Map(Strip, Split(credits, "|")))
    ELSE IF Truthy(credits) THEN <<JText(credits)>> ELSE <<>>

\* the document of a film in export_films_normalized
NormalizedFilmDocument(row) ==
    LET withDirectors == WithRole(FilmDict(row), "directors", "director",
                                  RoleData(film_directors, row.id))
        withWriters   == WithRole(withDirectors, "writers", "writer",
                                  RoleData(film_writers, row.id))
        withProducers == WithRole(withWriters, "producers", "producer",
                                  RoleData(film_producers, row.id))
        withSubjects  == DictSet(withProducers, "controlled_subjects",
                                 JList(ControlledSubjects(row.id)))
    IN  DropNone(DictSet(withSubjects, "authors",
                         JList(FilmAuthors(row.literary_credits))))

\* the document of a film in export_films
OriginalFilmDocument(row) ==
    DropNone(DictSet(FilmDict(row), "controlled_subjects",
                     JList(ControlledSubjects(row.id))))

\* by_decade: the documents of each decade, in the order of the list
Decade(doc) == (DictGet(doc, "release_year").value \div 10) * 10

ByDecade(docs) ==
    LET InDecade(d) == LET Same(doc) == Decade(doc) = d IN SelectSeq(docs, Same)
    IN  [d \in {Decade(docs[i]) : i \in 1..Len(docs)} |-> InDecade(d)]

\* the files of a directory after some of them are written again
Overwrite(files, written) ==
    [d \in DOMAIN files \cup DOMAIN written |->
        IF d \in DOMAIN written THEN written[d] ELSE files[d]]

\* SELECT ... FROM films ... ORDER BY release_year, for a set of film rows
\* given by their indices: rows that tie come in rowid order
ByYear(F) ==
    LET rows == AtIndices(films, F)
    IN  OrderBy(rows,
                {p \in IndexPairs(rows) :
                    \/ rows[p[1]].release_year < rows[p[2]].release_year
                    \/ /\ rows[p[1]].release_year = rows[p[2]].release_year
                       /\ p[1] < p[2]})

\* the entry of a film in the films list of an author
AuthorFilm(row) ==
    JDict(<<Pair("id", JInt(row.id)), Pair("title", JColumn(row.title)),
            Pair("year", JInt(row.release_year)),
            Pair("survival_status", JColumn(row.survival_status))>>)

\* author_data, for an author and the indices of the films of the author
AuthorData(name, F) ==
    LET years == {films[f].release_year : f \in F}
    IN  << Pair("name", JText(name)),
           Pair("adaptation_count", JInt(Cardinality(F))),
           Pair("first_adaptation", JInt(Min(years))),
           Pair("last_adaptation", JInt(Max(years))),
           Pair("year_span", JInt(IF Max(years) # 0 /\ Min(years) # 0
                                  THEN Max(years) - Min(years) ELSE 0)),
           Pair("films", JList(Map(AuthorFilm, ByYear(F)))) >>

\* the groups of the authors query, ORDER BY adaptation_count DESC, name
AuthorGroups(groups) ==
    OrderBy(groups,
            {p \in IndexPairs(groups) :
                \/ Cardinality(groups[p[1]].films) > Cardinality(groups[p[2]].films)
                \/ /\ Cardinality(groups[p[1]].films) = Cardinality(groups[p[2]].films)
                   /\ TextLess(groups[p[1]].name, groups[p[2]].name)})

\* authors JOIN film_authors JOIN films GROUP BY author_id
NormalizedAuthorGroups ==
    LET FilmsOf(a) == {f \in 1..Len(films) :
                          \E l \in 1..Len(film_authors) :
                              /\ film_authors[l].author_id = a
                              /\ film_authors[l].film_id = films[f].id}
        Group(a) == [name |-> authors[a], films |-> FilmsOf(a)]
        Linked(a) == FilmsOf(a) # {}
    IN  Map(Group, SelectSeq([a \in 1..Len(authors) |-> a], Linked))

\* films WHERE literary_credits IS NOT NULL AND literary_credits != ''
\* GROUP BY literary_credits
OriginalAuthorGroups ==
    LET credited == {f \in 1..Len(films) : Truthy(films[f].literary_credits)}
        FilmsOf(c) == {f \in credited : films[f].literary_credits = c}
        Group(c) == [name |-> c, films |-> FilmsOf(c)]
    IN  Map(Group, Sorted({films[f].literary_credits : f \in credited}))

\* export_authors: the list written to authors.json
ExportedAuthors ==
    LET Data(g) == AuthorData(g.name, g.films)
    IN  Map(Data, AuthorGroups(IF HasAuthorsTable THEN NormalizedAuthorGroups
                               ELSE OriginalAuthorGroups))

\* the release years of the films a person is linked to in a role
CreditYears(links, person_id) ==
    {films[f].release_year :
        f \in {g \in 1..Len(films) :
                  \E l \in 1..Len(links) : /\ links[l].person_id = person_id
                                           /\ links[l].film_id = films[g].id}}

\* COUNT(DISTINCT x.film_id) of the links of a person
CreditCount(links, person_id) ==
    Cardinality({links[l].film_id :
                    l \in {k \in 1..Len(links) : links[k].person_id = person_id}})

\* MIN / MAX(COALESCE(directed, COALESCE(written, produced))) of a person
CreditedYears(person_id) ==
    LET directed == CreditYears(film_directors, person_id)
        written  == CreditYears(film_writers, person_id)
    IN  IF directed # {} THEN directed
        ELSE IF written # {} THEN written
        ELSE CreditYears(film_producers, person_id)

\* a person of people.json, without the filmography: the row of the query
\* and total_films, the number of films of the filmography
PersonDocument(person_id) ==
    LET years == CreditedYears(person_id)
        linked == {l.film_id : l \in {k \in Range(film_directors) \cup Range(film_writers)
                                            \cup Range(film_producers) :
                                         k.person_id = person_id}}
        listed == {films[f].id : f \in 1..Len(films)} \cap linked
    IN  JDict(<<Pair("person_id", JInt(person_id)),
                Pair("name", JText(people[person_id].name)),
                Pair("films_directed", JInt(CreditCount(film_directors, person_id))),
                Pair("films_written", JInt(CreditCount(film_writers, person_id))),
                Pair("films_produced", JInt(CreditCount(film_producers, person_id))),
                Pair("first_credit", IF years = {} THEN JNull ELSE JInt(Min(years))),
                Pair("last_credit", IF years = {} THEN JNull ELSE JInt(Max(years))),
                Pair("total_films", JInt(Cardinality(listed)))>>)

\* export_people: GROUP BY p.person_id HAVING the three counts sum to more
\* than 0, ORDER BY that sum DESC (people that tie come in person_id order)
ExportedPeople ==
    LET Total(p) == CreditCount(film_directors, p) + CreditCount(film_writers, p)
                        + CreditCount(film_producers, p)
        Credited(p) == Total(p) > 0
        ids == SelectSeq([p \in 1..Len(people) |-> p], Credited)
    IN  JList(Map(PersonDocument,
                  OrderBy(ids,
                          {p \in IndexPairs(ids) :
                              \/ Total(ids[p[1]]) > Total(ids[p[2]])
                              \/ /\ Total(ids[p[1]]) = Total(ids[p[2]])
                                 /\ p[1] < p[2]})))

\* metadata['statistics'] of export_site_metadata: total_people is set only
\* when the people table exists and has a row
SiteStatistics ==
    LET years == {films[f].release_year : f \in 1..Len(films)}
        credits == {films[f].literary_credits : f \in 1..Len(films)} \ {NULL}
        statistics ==
            <<Pair("total_films", JInt(Len(films))),
              Pair("total_authors", JInt(Cardinality(credits))),
              Pair("year_range",
                   JDict(<<Pair("start", IF years = {} THEN JNull ELSE JInt(Min(years))),
                           Pair("end", IF years = {} THEN JNull ELSE JInt(Max(years)))>>)),
              Pair("total_controlled_terms", JInt(Len(controlled_terms)))>>
    IN  IF HasPeopleTable /\ Len(people) > 0
        THEN DictSet(statistics, "total_people", JInt(Len(people)))
        ELSE statistics

\* metadata.json, without the texts and the dates of the run
SiteMetadata == JDict(<<Pair("statistics", JDict(SiteStatistics))>>)

\* python db-to-json.py: export_all.  The films, then the people when the
\* people table exists, the authors, the vocabulary, the themes, the search
\* index and the metadata.  The query for the controlled subjects of the first
\* film and the queries of the vocabulary fail without the vocabulary tables,
\* and the query for the films of the first author fails without the
\* survival_status column: the export stops there, with the files written so
\* far.
ExportAll ==
    LET docs == IF HasPeopleTable
                THEN Map(NormalizedFilmDocument, FilmsOrdered)
                ELSE Map(OriginalFilmDocument, FilmsOrdered)
        groups == IF HasAuthorsTable THEN NormalizedAuthorGroups ELSE OriginalAuthorGroups
    IN  /\ IF Len(films) > 0 /\ ~tablesCreated
           THEN UNCHANGED exportVars
           ELSE /\ films_json' = docs
                /\ decade_files' = Overwrite(decade_files, ByDecade(docs))
                /\ people_json' = IF HasPeopleTable THEN ExportedPeople ELSE people_json
                /\ IF Len(groups) > 0 /\ ~HasSurvivalColumn(films)
                   THEN UNCHANGED <<authors_json, metadata_json>>
                   ELSE /\ authors_json' = ExportedAuthors
                        /\ metadata_json' = IF tablesCreated THEN SiteMetadata
                                            ELSE metadata_json
        /\ lastOp' = "export"
        /\ UNCHANGED <<pageVars, cleanAuthorsVars, collectVars, companyVars, films, people,
                       film_directors, film_writers, film_producers,
                       authors, film_authors, reran, normalizedFilms, cleanedFilms,
                       vocabVars, saves, parseVars>>

(***************************************************************************)
(* The export of a library of films that the normalization, the cleanup,   *)
(* the vocabulary migration and the tagger have or have not run on.        *)
(***************************************************************************)
SampleExportFilms ==
    << [title |-> Chars("Zeta"), release_year |-> 1931, director |-> Chars("b"),
        writer |-> NULL, producer |-> NULL, literary_credits |-> Chars("x"),
        subjects |-> NULL, survival_status |-> NULL],
       [title |-> Chars("Alpha"), release_year |-> 1931, director |-> Chars("a|b"),
        writer |-> Chars("a"), producer |-> Chars("c|b|a"),
        literary_credits |-> Chars("x|y"), subjects |-> Chars("Marriage|Bigamy"),
        survival_status |-> Chars("extant")],
       [title |-> Chars("Beta"), release_year |-> 1929, director |-> NULL,
        writer |-> NULL, producer |-> NULL, literary_credits |-> NULL,
        subjects |-> Chars("Zebras"), survival_status |-> NULL],
       [title |-> Chars("Alpha"), release_year |-> 1940, director |-> Chars("b|12|a"),
        writer |-> Chars("b"), producer |-> <<>>, literary_credits |-> Chars("y"),
        subjects |-> Chars("Family honor|Family honor|Weddings--Secret|Mothers"),
        survival_status |-> Chars("lost")] >>

\* the sample films of each sample library, in rowid order
SampleLibraries == {<<1, 2>>, <<2, 1>>, <<3, 4>>, <<1, 2, 3>>}

\* the films table of a library: the n-th row has rowid n
Library(c) ==
    [n \in 1..Len(c) |->
        [id |-> n, afi_movie_id |-> SampleMovieId(n)] @@ SampleExportFilms[c[n]]]

\* the films table before import-prepopulated.py has added its columns
WithoutSurvivalColumn(rows) ==
    [n \in 1..Len(rows) |->
        [c \in DOMAIN rows[n] \ {"survival_status"} |-> rows[n][c]]]

ExportInit ==
    /\ \E c \in SampleLibraries :
           films \in {Library(c), WithoutSurvivalColumn(Library(c))}
    /\ people = <<>>
    /\ film_directors = <<>>
    /\ film_writers = <<>>
    /\ film_producers = <<>>
    /\ authors = <<>>
    /\ film_authors = <<>>
    /\ lastOp = "none"
    /\ reran = {}
    /\ normalizedFilms = <<>>
    /\ cleanedFilms = <<>>
    /\ field = NULL
    /\ results = <<>>
    /\ pc = "done"
    /\ NoVocabulary
    /\ saves = 0
    /\ ToolsIdle

ExportNext ==
    NormalizeRun \/ CleanDatabase \/ MigrateVocab \/ ApplyControlledTerms \/ ExportAll

ExportSpec == ExportInit /\ [][ExportNext]_vars

(***************************************************************************)
(* Claims about the export                                                 *)
(***************************************************************************)
\* every list of film documents an export has written: films.json and the
\* file of each decade
FilmLists(all, byDecade) == {all} \cup {byDecade[d] : d \in DOMAIN byDecade}

\* the films rows that have no row in film_subjects_controlled
Untagged ==
    {films[f].id : f \in {g \in 1..Len(films) :
        \A r \in 1..Len(film_subjects_controlled) :
            film_subjects_controlled[r].film_id # films[g].id}}

\* C12: every film document an export writes has the key controlled_subjects
\* with a list as its value, the empty list for a film that has no
\* controlled-term association, and there is one document for each film.
C12_ControlledSubjectsAlwaysPresent ==
    [][(lastOp' = "export" /\ films_json' # NULL) =>
          /\ Len(films_json') = Len(films)
          /\ \A docs \in FilmLists(films_json', decade_files') :
                 \A i \in 1..Len(docs) :
                     /\ HasKey(docs[i], "controlled_subjects")
                     /\ DictGet(docs[i], "controlled_subjects").type = "list"
                     /\ DictGet(docs[i], "id").value \in Untagged =>
                            DictGet(docs[i], "controlled_subjects").value = <<>>]_vars

\* an export of the normalized structure has written a film without
\* associations, its subject list empty, beside a film that has some
C12_Witness ==
    /\ lastOp = "export"
    /\ films_json # NULL
    /\ \E i, j \in 1..Len(films_json) :
           /\ HasKey(films_json[i], "directors")
           /\ DictGet(films_json[i], "id").value \in Untagged
           /\ DictGet(films_json[i], "controlled_subjects").value = <<>>
           /\ DictGet(films_json[j], "controlled_subjects").value # <<>>

\* a list of film documents is in ascending (release_year, title) order
InYearTitleOrder(docs) ==
    \A i, j \in 1..Len(docs) :
        i < j =>
            LET yi == DictGet(docs[i], "release_year").value
                yj == DictGet(docs[j], "release_year").value
                ti == DictGet(docs[i], "title").value
                tj == DictGet(docs[j], "title").value
            IN  yi < yj \/ (yi = yj /\ ~TextLess(tj, ti))

\* C13: films.json and the file of every decade list the film documents in
\* ascending (release_year, title) order.
C13_ExportInYearTitleOrder ==
    [][(lastOp' = "export" /\ films_json' # NULL) =>
          \A docs \in FilmLists(films_json', decade_files') : InYearTitleOrder(docs)]_vars

\* an export has listed a film before a film of the same year that has a
\* smaller rowid and a larger title, and a film of an earlier year before both
C13_Witness ==
    /\ lastOp = "export"
    /\ films_json # NULL
    /\ \E i, j, k \in 1..Len(films_json) :
           /\ k < i /\ i < j
           /\ DictGet(films_json[i], "id").value > DictGet(films_json[j], "id").value
           /\ DictGet(films_json[i], "release_year").value
                  = DictGet(films_json[j], "release_year").value
           /\ DictGet(films_json[k], "release_year").value
                  < DictGet(films_json[i], "release_year").value
           /\ Cardinality(DOMAIN decade_files) > 1

RoleKeys == {<<"directors", "director">>, <<"writers", "writer">>, <<"producers", "producer">>}

\* C14: in every film document an export of the normalized structure writes,
\* each role list is in ascending order of position and the joined role
\* string names the people of the list in the order of the list.
C14_RoleListsFollowPosition ==
    [][(lastOp' = "export" /\ films_json' # NULL) =>
          \A docs \in FilmLists(films_json', decade_files') :
              \A i \in 1..Len(docs) : \A role \in RoleKeys :
                  HasKey(docs[i], role[1]) =>
                      LET list == DictGet(docs[i], role[1]).value
                      IN  /\ \A a, b \in 1..Len(list) :
                                 a < b => DictGet(list[a].value, "position").value
                                              < DictGet(list[b].value, "position").value
                          /\ DictGet(docs[i], role[2]).value =
                                 Join([a \in 1..Len(list) |->
                                          DictGet(list[a].value, "name").value],
                                      Chars(" & "))]_vars

\* a JSON value holds no null, at any depth
RECURSIVE NoNull(_)
NoNull(v) ==
    CASE v.type = "null" -> FALSE
      [] v.type = "list" -> \A i \in 1..Len(v.value) : NoNull(v.value[i])
      [] v.type = "dict" -> \A i \in 1..Len(v.value) : NoNull(v.value[i].value)
      [] OTHER -> TRUE

\* C15: no film object of films.json, and no author object of authors.json
\* with its nested film entries, has a field whose value is null.
C15_NoNullFields ==
    [][lastOp' = "export" =>
          /\ films_json' # NULL =>
                 \A i \in 1..Len(films_json') : NoNull(JDict(films_json'[i]))
          /\ authors_json' # NULL =>
                 \A i \in 1..Len(authors_json') : NoNull(JDict(authors_json'[i]))]_vars

(***************************************************************************)
(* clean-authors.py: the targeted cleaning of literary_credits and writer  *)
(***************************************************************************)
\* column LIKE '%needle%': NULL is like nothing
Like(value, needle) == value # NULL /\ Find(value, needle) # {}

\* str.split(needle) for a needle of any length
RECURSIVE SplitText(_, _)
SplitText(s, needle) ==
    IF Find(s, needle) = {} THEN <<s>>
    ELSE LET m == Min(Find(s, needle))
         IN  <<SubSeq(s, 1, m - 1)>>
                 \o SplitText(SubSeq(s, m + Len(needle), Len(s)), needle)

\* \s*\d+$ matches at index i of s
DigitsToEnd(s, i) == IsDigit(SubSeq(s, SkipSpace(s, i), Len(s)))

\* re.search(r'\|\s*\d+$', s) finds a match
EndsWithId(s) == \E i \in 1..Len(s) : s[i] = "|" /\ DigitsToEnd(s, i + 1)

\* where \s*\|\s*\d+$ matches in s
IdMatches(s) == {i \in 1..Len(s) : PipeMatchAt(s, i) /\ DigitsToEnd(s, SkipSpace(s, i) + 1)}

\* re.sub(r'\s*\|\s*\d+$', '', s): the leftmost match reaches the end of s
RemoveId(s) == IF IdMatches(s) = {} THEN s ELSE SubSeq(s, 1, Min(IdMatches(s)) - 1)

\* [p.strip() for p in s.split(needle) if p.strip()] joined by ' | '
Rejoined(s, needle) ==
    Join(SelectSeq(Map(Strip, SplitText(s, needle)), NonEmpty), Chars(" | "))

Change(column, film_id, old_value, new_value) ==
    [field |-> column, film_id |-> film_id, old_value |-> old_value, new_value |-> new_value]

\* 1. trailing spaces (lines 27-39)
TrailingSpaceChanges(rows) ==
    LET Untrimmed(row) == row.literary_credits # NULL
                              /\ row.literary_credits # Strip(row.literary_credits)
        Fix(row) == Change("literary_credits", row.id, row.literary_credits,
                           Strip(row.literary_credits))
    IN  Map(Fix, SelectSeq(rows, Untrimmed))

\* 2. co-author format (lines 42-60)
CoAuthorChanges(rows) ==
    LET Selected(row) == /\ Like(row.literary_credits, Chars("|"))
                         /\ ~EndsWithId(row.literary_credits)
                         /\ row.literary_credits # Rejoined(row.literary_credits, Chars("|"))
        Fix(row) == Change("literary_credits", row.id, row.literary_credits,
                           Rejoined(row.literary_credits, Chars("|")))
    IN  Map(Fix, SelectSeq(rows, Selected))

\* 3. double pipes (lines 63-76)
DoublePipeChanges(rows) ==
    LET Selected(row) == Like(row.literary_credits, Chars("||"))
        Fix(row) == Change("literary_credits", row.id, row.literary_credits,
                           Rejoined(row.literary_credits, Chars("||")))
    IN  Map(Fix, SelectSeq(rows, Selected))

\* 4. writer field (lines 79-96)
WriterChanges(rows) ==
    LET Selected(row) == /\ Like(row.writer, Chars("|"))
                         /\ row.writer # Strip(RemoveId(row.writer))
        Fix(row) == Change("writer", row.id, row.writer, Strip(RemoveId(row.writer)))
    IN  Map(Fix, SelectSeq(rows, Selected))

\* the list changes of clean_database
Changes(rows) ==
    TrailingSpaceChanges(rows) \o CoAuthorChanges(rows)
        \o DoublePipeChanges(rows) \o WriterChanges(rows)

\* UPDATE films SET field = new_val WHERE id = film_id, change by change
RECURSIVE ApplyChanges(_, _)
ApplyChanges(rows, changes) ==
    IF Len(changes) = 0 THEN rows
    ELSE LET ch == Head(changes)
         IN  ApplyChanges([i \in 1..Len(rows) |->
                              IF rows[i].id = ch.film_id
                              THEN [rows[i] EXCEPT ![ch.field] = ch.new_value]
                              ELSE rows[i]],
                          Tail(changes))

\* the films rows a run leaves when it applies its changes whatever dry_run is
UpdatedRowsAlways(rows, changes, dry_run) == ApplyChanges(rows, changes)

\* the films rows a run leaves (lines 116-121)
UpdatedRows(rows, changes, dry_run) ==
    IF ~dry_run THEN ApplyChanges(rows, changes) ELSE rows

\* clean_database(db_path, dry_run) as main calls it: dry_run = not args.apply
CleanAuthors ==
    \E apply \in BOOLEAN :
        LET dry_run == ~apply
            changes == Changes(films)
        IN  /\ films_backup' = IF ~dry_run THEN films ELSE films_backup
            /\ films' = UpdatedRows(films, changes, dry_run)
            /\ clean_authors_run' =
                   [dry_run |-> dry_run, films |-> films, count |-> Len(changes)]
            /\ lastOp' = "clean_authors"
            /\ UNCHANGED <<exportVars, pageVars, collectVars, companyVars, people, film_directors, film_writers,
                           film_producers, authors, film_authors, reran, normalizedFilms,
                           cleanedFilms, vocabVars, saves, parseVars>>

(***************************************************************************)
(* The store under runs of clean-authors.py and cleanup.py, from film rows *)
(* with the data issues the script names.                                  *)
(***************************************************************************)
DirtyRows ==
    { FilmRow(NULL, NULL, NULL, NULL),
      FilmRow(NULL, Chars("a"), NULL, Chars("b ")),
      FilmRow(NULL, Chars("a |12"), NULL, Chars("a|b")),
      FilmRow(NULL, Chars("a|b"), NULL, Chars("a | b")),
      FilmRow(NULL, Chars(" a|1|2"), NULL, Chars("a||b ")),
      FilmRow(NULL, Chars("a| 1 "), NULL, Chars("b|12")),
      FilmRow(NULL, Chars("|3"), NULL, Chars(" a|| |b|")) }

CleanAuthorsInit ==
    /\ \E c \in [1..NumFilms -> DirtyRows] :
           films = [i \in 1..NumFilms |-> StoredFilm(i, c[i])]
    /\ people = <<>>
    /\ film_directors = <<>>
    /\ film_writers = <<>>
    /\ film_producers = <<>>
    /\ authors = <<>>
    /\ film_authors = <<>>
    /\ lastOp = "none"
    /\ reran = {}
    /\ normalizedFilms = <<>>
    /\ cleanedFilms = <<>>
    /\ field = NULL
    /\ results = <<>>
    /\ pc = "done"
    /\ NoVocabulary
    /\ saves = 0
    /\ ToolsIdle

CleanAuthorsNext == CleanAuthors \/ CleanDatabase

CleanAuthorsSpec == CleanAuthorsInit /\ [][CleanAuthorsNext]_vars

(***************************************************************************)
(* Claims about dry runs                                                   *)
(***************************************************************************)
\* C16: a run of clean-authors.py without the apply flag creates no
\* films_backup table and changes no films row, and the apply run on the
\* store the dry run read returns the change count the dry run returned.
C16_DryRunIsPreview ==
    [][lastOp' = "clean_authors" =>
          /\ clean_authors_run'.dry_run =>
                 films' = films /\ films_backup' = films_backup
          /\ (/\ ~clean_authors_run'.dry_run
              /\ lastOp = "clean_authors"
              /\ clean_authors_run.dry_run
              /\ clean_authors_run.films = films) =>
                 clean_authors_run'.count = clean_authors_run.count]_vars

\* a dry run has returned three changes or more, for both columns of a row,
\* on a store that holds no backup table
C16_Witness ==
    /\ lastOp = "clean_authors"
    /\ clean_authors_run.dry_run
    /\ clean_authors_run.films = films
    /\ films_backup = NULL
    /\ Len(Changes(films)) >= 3
    /\ \E i, j \in 1..Len(Changes(films)) :
           /\ Changes(films)[i].film_id = Changes(films)[j].film_id
           /\ Changes(films)[i].field = "writer"
           /\ Changes(films)[j].field = "literary_credits"

\* C17: a run of cleanup.py with its default options is a dry-run preview:
\* it leaves every films row unchanged.
C17_CleanupDefaultIsPreview ==
    [][lastOp' = "cleanup" => films' = films]_vars

(***************************************************************************)
(* Claims about the collector                                              *)
(***************************************************************************)
\* the AFI movie ids stored in film rows
StoredMovieIds(rows) == {rows[i].afi_movie_id : i \in 1..Len(rows)} \ {NULL}

\* C18: saving a film whose afi_movie_id is already stored leaves the number
\* of film rows unchanged, and over every save each stored film keeps its id.
C18_SavedAgainInPlace ==
    [][lastOp' = "save" =>
          /\ StoredMovieIds(films') = StoredMovieIds(films) => Len(films') = Len(films)
          /\ \A i \in 1..Len(films) :
                 films[i].afi_movie_id # NULL =>
                     \E j \in 1..Len(films') :
                         /\ films'[j].afi_movie_id = films[i].afi_movie_id
                         /\ films'[j].id = films[i].id]_vars

(***************************************************************************)
(* afi_collector.py: the search, the exact match and the collection loop   *)
(***************************************************************************)
\* d.get(key, default) for a dict d of JSON values
Get(d, key, default) == IF HasKey(d, key) THEN DictGet(d, key) ELSE default

DigitSeq == <<"0", "1", "2", "3", "4", "5", "6", "7", "8", "9">>

DigitValue(c) == (CHOOSE i \in 1..Len(DigitSeq) : DigitSeq[i] = c) - 1

\* the number a text of digits spells
RECURSIVE Decimal(_)
Decimal(s) ==
    IF Len(s) = 0 THEN 0
    ELSE 10 * Decimal(SubSeq(s, 1, Len(s) - 1)) + DigitValue(s[Len(s)])

\* whether int() accepts the text: surrounding whitespace, one sign, digits
\* with single underscores between them
IsIntLiteral(s) ==
    LET t == Strip(s)
        body == IF Len(t) > 0 /\ t[1] \in {"+", "-"} THEN Tail(t) ELSE t
    IN  /\ Len(body) > 0
        /\ body[1] \in Digits /\ body[Len(body)] \in Digits
        /\ \A i \in 1..Len(body) : body[i] \in Digits \cup {"_"}
        /\ \A i \in 1..(Len(body) - 1) : ~(body[i] = "_" /\ body[i + 1] = "_")

\* int(s) for a text int() accepts
IntOfText(s) ==
    LET t == Strip(s)
        body == IF t[1] \in {"+", "-"} THEN Tail(t) ELSE t
        IsDigitChar(c) == c \in Digits
        n == Decimal(SelectSeq(body, IsDigitChar))
    IN  IF t[1] = "-" THEN 0 - n ELSE n

\* int(v) raises ValueError or TypeError
IntFails(v) ==
    CASE v.type = "int" -> FALSE
      [] v.type = "text" -> ~IsIntLiteral(v.value)
      [] OTHER -> TRUE

\* int(v) for a JSON value int() accepts
IntOf(v) == IF v.type = "int" THEN v.value ELSE IntOfText(v.value)

\* a JSON text or null as the column value sqlite stores
ColumnOf(v) == IF v.type = "null" THEN NULL ELSE v.value

\* the dict film_data of a document (lines 150-169), by the columns of the model
FilmDataOf(doc) ==
    [afi_movie_id |-> ColumnOf(Get(doc, "MovieId", JNull)),
     title |-> Get(doc, "MovieName", JText(<<>>)).value,
     release_year |-> IntOf(Get(doc, "ReleaseYear", JText(<<>>))),
     director |-> ColumnOf(Get(doc, "Director", JNull)),
     writer |-> ColumnOf(Get(doc, "Writer", JNull)),
     producer |-> ColumnOf(Get(doc, "Producer", JNull)),
     literary_credits |-> ColumnOf(Get(doc, "LiteraryNoteCredits", JNull)),
     subjects |-> ColumnOf(Get(doc, "Subjects", JNull))]

\* return None
None == JNull

\* return film_data
Found(film_data) == [type |-> "film_data", value |-> film_data]

\* the document of a result passes both checks of the loop (lines 128-144)
IsExactMatch(doc, target_title, target_year) ==
    LET film_title == Get(doc, "MovieName", JText(<<>>)).value
        film_year == Get(doc, "ReleaseYear", JText(<<>>))
    IN  /\ Lower(Strip(film_title)) = Lower(Strip(target_title))
        /\ ~IntFails(film_year)
        /\ IntOf(film_year) = target_year

\* the result of the document, by the top-level key the search gives it
DocumentOf(result) == Get(result.value, "Document", JDict(<<>>)).value

\* the loop over the results, from the k-th on (lines 123-171)
RECURSIVE FirstExactMatch(_, _, _, _)
FirstExactMatch(rs, target_title, target_year, k) ==
    IF k > Len(rs) THEN None
    ELSE LET doc == DocumentOf(rs[k])
         IN  IF IsExactMatch(doc, target_title, target_year)
             THEN Found(FilmDataOf(doc))
             ELSE FirstExactMatch(rs, target_title, target_year, k + 1)

\* the extraction, were the last exact match to win
ExtractLastMatch(sr, target_title, target_year) ==
    IF \/ ~HasKey(sr.value, "MovieSearch")
       \/ ~HasKey(DictGet(sr.value, "MovieSearch").value, "Results")
    THEN None
    ELSE LET rs == DictGet(DictGet(sr.value, "MovieSearch").value, "Results").value
             M == {i \in 1..Len(rs) :
                      IsExactMatch(DocumentOf(rs[i]), target_title, target_year)}
         IN  IF M = {} THEN None ELSE Found(FilmDataOf(DocumentOf(rs[Max(M)])))

\* extract_film_data(search_result, target_title, target_year)
ExtractFilmData(sr, target_title, target_year) ==
    IF \/ ~HasKey(sr.value, "MovieSearch")
       \/ ~HasKey(DictGet(sr.value, "MovieSearch").value, "Results")
    THEN None
    ELSE FirstExactMatch(DictGet(DictGet(sr.value, "MovieSearch").value, "Results").value,
                         target_title, target_year, 1)

\* the dict search_film returns when the request raised (lines 109-111)
RequestFailed == JDict(<<>>)

\* the list failed_matches after an item, were a failed search not recorded
FailedAfterNoMatchOnly(failed, sr, film_data, title, year) ==
    IF Len(sr.value) > 0 /\ film_data = None THEN Append(failed, <<title, year>>) ELSE failed

\* the list failed_matches after an item (lines 232-244)
FailedAfter(failed, sr, film_data, title, year) ==
    IF Len(sr.value) > 0 /\ film_data # None THEN failed ELSE Append(failed, <<title, year>>)

(***************************************************************************)
(* The collection of a sample list against a catalogue that answers each   *)
(* search with up to MaxResults results, or not at all.                    *)
(***************************************************************************)
MaxResults == 2

\* a document with the keys of a catalogue entry
Document(name, year, movie_id, director) ==
    <<Pair("MovieName", JText(Chars(name))), Pair("ReleaseYear", year),
      Pair("MovieId", JText(Chars(movie_id))), Pair("Director", director)>>

Result(doc) == JDict(<<Pair("Document", JDict(doc))>>)

SampleResults ==
    << Result(Document("Zeta", JText(Chars("1931")), "1", JText(Chars("b")))),
       Result(Document(" ZETA ", JText(Chars(" 1931 ")), "11", JNull)),
       Result(Document("Zeta", JInt(1931), "1", JText(Chars("a|b")))),
       Result(Document("zeta", JText(Chars("+01_931")), "111", JNull)),
       Result(Document("Zeta", JText(Chars("1932")), "1111", JNull)),
       Result(Document("Zeta", JText(Chars("19x1")), "1111", JNull)),
       Result(Document("Zeta", JText(<<>>), "1111", JNull)),
       Result(Document("Zeta", JNull, "1111", JNull)),
       Result(<<Pair("MovieName", JText(Chars("Zeta"))),
                Pair("MovieId", JText(Chars("1111")))>>),
       Result(Document("Zeta II", JText(Chars("1931")), "1111", JNull)),
       Result(<<Pair("ReleaseYear", JText(Chars("1931")))>>),
       Result(Document("Alpha", JText(Chars("1940")), "11", JText(Chars("a")))),
       JDict(<<>>) >>

SampleAnswers ==
    {Answer(kind, <<>>) : kind \in {"message", "no_results"}}
        \cup {Answer("results", rs) : rs \in Strings(1..Len(SampleResults), MaxResults)}

\* what search_film returns (lines 102-111): the JSON of the response, or {}
\* when the request raised
SearchFilm(answer, raised) ==
    IF raised THEN RequestFailed
    ELSE CASE answer.kind = "message" -> JDict(<<Pair("Message", JText(Chars("error")))>>)
           [] answer.kind = "no_results" ->
                  JDict(<<Pair("MovieSearch", JDict(<<Pair("TotalCount", JInt(0))>>))>>)
           [] answer.kind = "results" ->
                  JDict(<<Pair("MovieSearch",
                               JDict(<<Pair("Results",
                                            JList([i \in 1..Len(answer.results) |->
                                                      SampleResults[answer.results[i]]]))>>))>>)

SampleMovieLists ==
    { <<>>,
      <<<<Chars("Zeta"), 1931>>>>,
      <<<<Chars("Alpha"), 1940>>, <<Chars(" zeTa"), 1931>>>>,
      <<<<Chars("Zeta"), 1931>>, <<Chars("Zeta"), 1931>>, <<Chars("Alpha"), 1940>>>> }

\* one turn of the loop of collect_films_from_list (lines 228-247); the
\* request of the search may raise
CollectItem ==
    /\ item <= Len(movie_list)
    /\ \E raised \in BOOLEAN :
           LET sr == SearchFilm(catalogue, raised)
               title == movie_list[item][1]
               year == movie_list[item][2]
               film_data == IF Len(sr.value) > 0 THEN ExtractFilmData(sr, title, year)
                            ELSE None
           IN  /\ search_result' = <<sr>>
               /\ extracted' = IF Len(sr.value) > 0 THEN <<film_data>> ELSE <<>>
               /\ films' = IF film_data # None THEN ReplaceFilm(films, film_data.value)
                            ELSE films
               /\ production_companies' =
                      IF film_data # None
                      THEN InsertCompanies(production_companies,
                                           LastRowId(ReplaceFilm(films, film_data.value)),
                                           film_data.value)
                      ELSE production_companies
               /\ successful_matches' = IF film_data # None THEN successful_matches + 1
                                         ELSE successful_matches
               /\ failed_matches' = FailedAfter(failed_matches, sr, film_data, title, year)
               /\ processed' = Append(processed, movie_list[item])
    /\ item' = item + 1
    /\ lastOp' = "collect"
    /\ UNCHANGED <<catalogue, movie_list, exportVars, pageVars, cleanAuthorsVars, people, film_directors,
                   film_writers, film_producers, authors, film_authors, reran,
                   normalizedFilms, cleanedFilms, vocabVars, saves, parseVars>>

CollectInit ==
    /\ catalogue \in SampleAnswers
    /\ movie_list \in SampleMovieLists
    /\ item = 1
    /\ successful_matches = 0
    /\ failed_matches = <<>>
    /\ processed = <<>>
    /\ search_result = <<>>
    /\ extracted = <<>>
    /\ films = <<>>
    /\ people = <<>>
    /\ film_directors = <<>>
    /\ film_writers = <<>>
    /\ film_producers = <<>>
    /\ authors = <<>>
    /\ film_authors = <<>>
    /\ lastOp = "none"
    /\ reran = {}
    /\ normalizedFilms = <<>>
    /\ cleanedFilms = <<>>
    /\ field = NULL
    /\ results = <<>>
    /\ pc = "done"
    /\ NoVocabulary
    /\ saves = 0
    /\ NoExport
    /\ NoPages
    /\ NoCleanAuthorsRun
    /\ NoCompanies

CollectNext == CollectItem

CollectSpec == CollectInit /\ [][CollectNext]_vars

\* the decimal numeral of a natural number
RECURSIVE Numeral(_)
Numeral(n) ==
    IF n < 10 THEN <<DigitSeq[n + 1]>> ELSE Append(Numeral(n \div 10), DigitSeq[(n % 10) + 1])

RECURSIVE WithoutLeadingZeros(_)
WithoutLeadingZeros(s) ==
    IF Len(s) > 1 /\ s[1] = "0" THEN WithoutLeadingZeros(Tail(s)) ELSE s

\* a year of a document reads as the number year: the number itself, or its
\* numeral, which may stand between spaces, after a plus sign and zeros, and
\* with underscores between its digits
ReadsAsYear(v, year) ==
    \/ v.type = "int" /\ v.value = year
    \/ /\ v.type = "text"
       /\ LET t == Strip(v.value)
              unsigned == IF Len(t) > 0 /\ t[1] = "+" THEN Tail(t) ELSE t
              NotUnderscore(c) == c # "_"
          IN  WithoutLeadingZeros(SelectSeq(unsigned, NotUnderscore)) = Numeral(year)

\* the result names the requested film: same title but for case and
\* surrounding spaces, and a year that reads as the requested year
NamesFilm(result, title, year) ==
    /\ HasKey(result.value, "Document")
    /\ LET doc == DictGet(result.value, "Document").value
       IN  /\ HasKey(doc, "MovieName") /\ HasKey(doc, "ReleaseYear")
           /\ Strip(Lower(DictGet(doc, "MovieName").value)) = Strip(Lower(title))
           /\ ReadsAsYear(DictGet(doc, "ReleaseYear"), year)

\* the results of a search result, none when it has no list of results
ResultsOf(sr) ==
    IF /\ HasKey(sr.value, "MovieSearch")
       /\ HasKey(DictGet(sr.value, "MovieSearch").value, "Results")
    THEN DictGet(DictGet(sr.value, "MovieSearch").value, "Results").value
    ELSE <<>>

\* C19: extract_film_data returns the first result whose title is the
\* requested title, trimmed and without regard to case, and whose year parses
\* to the requested year, and None when there is no such result; a turn of
\* the collection loop saves that film and nothing else.
C19_ExactMatchOnly ==
    [][lastOp' = "collect" =>
          LET rs == ResultsOf(search_result'[1])
              title == movie_list[item][1]
              year == movie_list[item][2]
              M == {k \in 1..Len(rs) : NamesFilm(rs[k], title, year)}
          IN  IF M = {}
              THEN /\ extracted' # <<>> => extracted'[1] = None
                   /\ films' = films
              ELSE LET doc == DictGet(rs[Min(M)].value, "Document").value
                       saved == films'[Len(films')]
                   IN  /\ extracted' # <<>>
                       /\ extracted'[1].type = "film_data"
                       /\ extracted'[1].value.title = DictGet(doc, "MovieName").value
                       /\ extracted'[1].value.afi_movie_id = DictGet(doc, "MovieId").value
                       /\ extracted'[1].value.release_year = year
                       /\ Len(films') > 0
                       /\ saved.title = DictGet(doc, "MovieName").value
                       /\ saved.afi_movie_id = DictGet(doc, "MovieId").value
                       /\ saved.release_year = year
                       /\ \A i \in 1..(Len(films') - 1) : \E j \in 1..Len(films) :
                              films'[i] = films[j]]_vars

\* a turn of the loop has saved the second result of a search, spelled other
\* than the requested title, after a first result of that title whose year
\* does not parse
C19_Witness ==
    /\ lastOp = "collect"
    /\ extracted # <<>>
    /\ extracted[1].type = "film_data"
    /\ extracted[1].value.title # processed[Len(processed)][1]
    /\ Len(ResultsOf(search_result[1])) = 2
    /\ LET first == DocumentOf(ResultsOf(search_result[1])[1])
       IN  /\ Lower(Strip(Get(first, "MovieName", JText(<<>>)).value))
                  = Lower(Strip(processed[Len(processed)][1]))
           /\ IntFails(Get(first, "ReleaseYear", JText(<<>>)))
    /\ films[Len(films)].title = extracted[1].value.title

AuthorNames(docs) == {DictGet(docs[i], "name").value : i \in 1..Len(docs)}

\* the author documents count the films that carry the name as their
\* literary_credits
GroupedByCredits(docs) ==
    /\ AuthorNames(docs) = {films[f].literary_credits :
                               f \in {g \in 1..Len(films) : Truthy(films[g].literary_credits)}}
    /\ \A i \in 1..Len(docs) :
           DictGet(docs[i], "adaptation_count").value =
               Cardinality({f \in 1..Len(films) :
                               films[f].literary_credits = DictGet(docs[i], "name").value})

\* C22: when the people table and the authors table do not exist, and the
\* films table and the vocabulary tables do, export_all completes: films.json
\* holds every film in the original structure (no role lists), authors.json
\* is grouped by literary_credits, metadata.json is written without the
\* total_people statistic, and people.json is not written.
C22_DegradedExportCompletes ==
    [][(lastOp' = "export" /\ ~HasPeopleTable /\ ~HasAuthorsTable /\ tablesCreated) =>
          /\ films_json' # NULL
          /\ Len(films_json') = Len(films)
          /\ \A i \in 1..Len(films_json') : ~HasKey(films_json'[i], "directors")
          /\ authors_json' # NULL
          /\ GroupedByCredits(authors_json')
          /\ people_json' = JNull
          /\ metadata_json' # JNull
          /\ ~HasKey(DictGet(metadata_json'.value, "statistics").value, "total_people")]_vars

\* the document of films.json for a film id
DocumentOfFilm(docs, film_id) ==
    docs[CHOOSE i \in 1..Len(docs) : DictGet(docs[i], "id").value = film_id]

\* film[key] of an exported document is the value of the column of the row:
\* a column that is NULL is None, which the export leaves out
FallsBackTo(doc, key, row) ==
    IF row[key] = NULL THEN ~HasKey(doc, key)
    ELSE HasKey(doc, key) /\ DictGet(doc, key) = JText(row[key])

\* C24: in the films.json of the normalized export, a film without junction
\* rows for a role has an empty role list and its director, writer or
\* producer field is the value of the column of the films row.
C24_ScalarFallsBackToColumn ==
    [][(lastOp' = "export" /\ HasPeopleTable /\ tablesCreated) =>
          \A f \in 1..Len(films) :
              LET doc == DocumentOfFilm(films_json', films[f].id)
                  NoLinks(links) == \A l \in 1..Len(links) : links[l].film_id # films[f].id
              IN  /\ NoLinks(film_directors) =>
                         /\ DictGet(doc, "directors") = JList(<<>>)
                         /\ FallsBackTo(doc, "director", films[f])
                  /\ NoLinks(film_writers) =>
                         /\ DictGet(doc, "writers") = JList(<<>>)
                         /\ FallsBackTo(doc, "writer", films[f])
                  /\ NoLinks(film_producers) =>
                         /\ DictGet(doc, "producers") = JList(<<>>)
                         /\ FallsBackTo(doc, "producer", films[f])]_vars

(***************************************************************************)
(* pages.py: the static pages of the films and the authors                 *)
(***************************************************************************)
\* re.sub(r'[-\s]+', '-', s): every run of hyphens and spaces becomes one hyphen
CollapseSeparators(s) ==
    LET IsSeparator(c) == c \in Whitespace \cup {"-"}
        starts == {i \in 1..Len(s) :
                      ~IsSeparator(s[i]) \/ i = 1 \/ ~IsSeparator(s[i - 1])}
        kept == AtIndices(s, starts)
    IN  [i \in 1..Len(kept) |-> IF IsSeparator(kept[i]) THEN "-" ELSE kept[i]]

\* str.strip('-')
StripHyphens(s) ==
    LET inner == {i \in 1..Len(s) : s[i] # "-"}
    IN  IF inner = {} THEN <<>> ELSE SubSeq(s, Min(inner), Max(inner))

\* slugify: lower case, without the characters that are no word character,
\* space or hyphen, the separators collapsed, no hyphen at either end
slugify(text) ==
    LET Kept(c) == IsWordChar(c) \/ c \in Whitespace \/ c = "-"
    IN  StripHyphens(CollapseSeparators(SelectSeq(Lower(text), Kept)))

\* the name of the file of a film below films/
FilmFile(film) ==
    slugify(DictGet(film, "title").value) \o Chars("-")
        \o Numeral(DictGet(film, "release_year").value) \o Chars(".html")

\* the name of the file of an author below authors/
AuthorFile(author) == slugify(DictGet(author, "name").value) \o Chars(".html")

FilmPage(film) == [kind |-> "film", id |-> DictGet(film, "id").value]

AuthorPage(author) == [kind |-> "author", name |-> DictGet(author, "name").value]

\* render_film_page reads film['title'] and film['release_year']
Renderable(film) == HasKey(film, "title") /\ HasKey(film, "release_year")

\* the files a loop writes, one page after the other under its name: a later
\* page with the name of an earlier one replaces it
Written(files, names, pages) ==
    Overwrite(files,
              [n \in Range(names) |->
                  pages[Max({i \in 1..Len(names) : names[i] = n})]])

\* generate_film_pages, up to the first film that cannot be rendered
FilmPagesWritten(files, docs) ==
    LET bad == {i \in 1..Len(docs) : ~Renderable(docs[i])}
        rendered == IF bad = {} THEN docs ELSE SubSeq(docs, 1, Min(bad) - 1)
    IN  Written(files, Map(FilmFile, rendered), Map(FilmPage, rendered))

\* generate_index_pages: films/index.html and authors/index.html
WithIndex(files, marker) ==
    Overwrite(files, [n \in {Chars("index.html")} |-> marker])

\* python pages.py: generate_all_pages.  Without one of the three files of
\* the export the run stops before it writes; a film without title stops it
\* after the pages of the films before it.
GeneratePages ==
    /\ IF films_json = NULL \/ authors_json = NULL \/ metadata_json = JNull
       THEN UNCHANGED pageVars
       ELSE IF \E i \in 1..Len(films_json) : ~Renderable(films_json[i])
       THEN /\ film_pages' = FilmPagesWritten(film_pages, films_json)
            /\ UNCHANGED author_pages
       ELSE /\ film_pages' = WithIndex(FilmPagesWritten(film_pages, films_json),
                                       [kind |-> "index", id |-> 0])
            /\ author_pages' = WithIndex(Written(author_pages,
                                                 Map(AuthorFile, authors_json),
                                                 Map(AuthorPage, authors_json)),
                                         [kind |-> "index", name |-> <<>>])
    /\ lastOp' = "pages"
    /\ UNCHANGED <<exportVars, cleanAuthorsVars, collectVars, companyVars, films, people,
                   film_directors, film_writers, film_producers,
                   authors, film_authors, reran, normalizedFilms, cleanedFilms,
                   vocabVars, saves, parseVars>>

(***************************************************************************)
(* The site of a library: the export, then the pages                       *)
(***************************************************************************)
SamplePageFilms ==
    << [title |-> Chars("Zeta"), release_year |-> 1931, director |-> Chars("b"),
        writer |-> NULL, producer |-> NULL, literary_credits |-> Chars("A-B"),
        subjects |-> NULL, survival_status |-> NULL],
       [title |-> Chars("Zeta!"), release_year |-> 1931, director |-> Chars("a"),
        writer |-> NULL, producer |-> NULL, literary_credits |-> Chars("a b"),
        subjects |-> Chars("Marriage"), survival_status |-> Chars("extant")],
       [title |-> Chars("Alpha"), release_year |-> 1940, director |-> NULL,
        writer |-> Chars("b"), producer |-> NULL, literary_credits |-> Chars("x|Index"),
        subjects |-> NULL, survival_status |-> Chars("lost")] >>

SamplePageLibraries == {<<1, 3>>, <<1, 2>>, <<3, 1, 1>>}

PageLibrary(c) ==
    [n \in 1..Len(c) |->
        [id |-> n, afi_movie_id |-> SampleMovieId(n)] @@ SamplePageFilms[c[n]]]

PagesInit ==
    /\ films \in {PageLibrary(c) : c \in SamplePageLibraries}
    /\ people = <<>>
    /\ film_directors = <<>>
    /\ film_writers = <<>>
    /\ film_producers = <<>>
    /\ authors = <<>>
    /\ film_authors = <<>>
    /\ lastOp = "none"
    /\ reran = {}
    /\ normalizedFilms = <<>>
    /\ cleanedFilms = <<>>
    /\ field = NULL
    /\ results = <<>>
    /\ pc = "done"
    /\ NoVocabulary
    /\ saves = 0
    /\ ToolsIdle

PagesNext ==
    NormalizeRun \/ CleanDatabase \/ MigrateVocab \/ ExportAll \/ GeneratePages

PagesSpec == PagesInit /\ [][PagesNext]_vars

\* C21: after the pages are generated, every film of films.json has its own
\* file below films/ and every author of authors.json its own file below
\* authors/: the file of a film shows that film, the file of an author that
\* author, and no two of them share a file.
C21_OnePagePerFilmAndAuthor ==
    [][(lastOp' = "pages" /\ films_json # NULL /\ authors_json # NULL
            /\ metadata_json # JNull) =>
          /\ \A i, j \in 1..Len(films_json) :
                 i # j => FilmFile(films_json[i]) # FilmFile(films_json[j])
          /\ \A i, j \in 1..Len(authors_json) :
                 i # j => AuthorFile(authors_json[i]) # AuthorFile(authors_json[j])
          /\ \A i \in 1..Len(films_json) :
                 /\ FilmFile(films_json[i]) \in DOMAIN film_pages'
                 /\ film_pages'[FilmFile(films_json[i])] = FilmPage(films_json[i])
          /\ \A i \in 1..Len(authors_json) :
                 /\ AuthorFile(authors_json[i]) \in DOMAIN author_pages'
                 /\ author_pages'[AuthorFile(authors_json[i])] = AuthorPage(authors_json[i])]_vars

(***************************************************************************)
(* Claims about the apply run of clean-authors.py                          *)
(***************************************************************************)
\* C25: after a run of clean-authors.py with the apply flag, no
\* literary_credits value ends with a pipe followed by digits: the values the
\* co-author step skips as AFI ids are cleaned by step 4.
C25_NoIdLeftInCredits ==
    [][(lastOp' = "clean_authors" /\ ~clean_authors_run'.dry_run) =>
          \A f \in 1..Len(films') :
              films'[f].literary_credits # NULL => ~EndsWithId(films'[f].literary_credits)]_vars

\* a literary_credits value in standard form: its trimmed names, none of
\* them empty, joined by ' | '
StandardForm(credits) == credits = Rejoined(credits, Chars("|"))

\* C26: after one run of clean-authors.py with the apply flag, a second run
\* computes no change, and every literary_credits value that does not end
\* with an AFI id is in standard form.
C26_ConvergesInOneRun ==
    [][(lastOp' = "clean_authors" /\ ~clean_authors_run'.dry_run) =>
          /\ Changes(films') = <<>>
          /\ \A f \in 1..Len(films') :
                 (films'[f].literary_credits # NULL /\ ~EndsWithId(films'[f].literary_credits))
                     => StandardForm(films'[f].literary_credits)]_vars

(***************************************************************************)
(* The tagger over a mapping table whose confidences are revised between   *)
(* its runs                                                                *)
(***************************************************************************)
\* the confidences a revision sets, in hundredths: below and above the 0.9
\* the tagger compares with
RevisedConfidences == {80, 100}

\* the confidence_score of the mapping of a subject of the catalogue is
\* edited in the afi_to_controlled_mapping table, which the tagger reads
\* anew at every run
ReviseConfidence ==
    /\ tablesCreated
    /\ \E r \in 1..Len(afi_to_controlled_mapping), c \in RevisedConfidences :
           /\ \E f \in FilmsWithSubjects :
                  afi_to_controlled_mapping[r].afi_subject
                      \in Range(SubjectTokens(films[f].subjects))
           /\ afi_to_controlled_mapping[r].confidence_score # c
           /\ afi_to_controlled_mapping' =
                  [afi_to_controlled_mapping EXCEPT ![r].confidence_score = c]
    /\ lastOp' = "revise"
    /\ UNCHANGED <<toolVars, films, people, film_directors, film_writers, film_producers,
                   authors, film_authors, reran, normalizedFilms, cleanedFilms,
                   tablesCreated, controlled_terms, film_subjects_controlled,
                   unmapped_subjects_txt, expanded, computed, saves, parseVars>>

TagNext == MigrateVocab \/ ApplyControlledTerms \/ ReviseConfidence

TagSpec == VocabInit /\ [][TagNext]_vars

(***************************************************************************)
(* Claims about repeated tagging runs                                      *)
(***************************************************************************)
\* C27: after a tagging run, whatever ran before it, every association row
\* has a relevance weight of 1, 2 or 3, every pair stored before the run is
\* still stored with a weight at least as high, and a run that directly
\* follows a tagging run leaves the number of rows as it was.
C27_WeightsBoundedAndMonotone ==
    [][lastOp' = "tag" =>
          /\ \A r \in 1..Len(film_subjects_controlled') :
                 film_subjects_controlled'[r].relevance_weight \in {1, 2, 3}
          /\ \A r \in 1..Len(film_subjects_controlled) :
                 \E q \in StoredWeights(film_subjects_controlled',
                                     film_subjects_controlled[r].film_id,
                                     film_subjects_controlled[r].term_id) :
                     film_subjects_controlled'[q].relevance_weight
                         >= film_subjects_controlled[r].relevance_weight
          /\ lastOp = "tag" =>
                 Len(film_subjects_controlled') = Len(film_subjects_controlled)]_vars

\* a tagging run that met stored pairs has kept, for a pair, a weight above
\* what it computed for the pair, and the table holds the weights 1 and 3
C27_Witness ==
    /\ lastOp = "tag"
    /\ "tag" \in reran
    /\ \E r \in 1..Len(film_subjects_controlled) :
           LET row == film_subjects_controlled[r]
               W == ComputedWeights(computed, row.film_id, row.term_id)
           IN  W # {} /\ row.relevance_weight > Max(W)
    /\ {1, 3} \subseteq {film_subjects_controlled[r].relevance_weight :
                            r \in 1..Len(film_subjects_controlled)}

(***************************************************************************)
(* Claims about the report of unmapped subjects                            *)
(***************************************************************************)
\* C29: the subjects create_expanded_mappings reads from
\* unmapped_subjects.txt are the subjects generate_mapping_report wrote to
\* it, each once: no entry more and no entry less.
C29_ReportRoundTrips ==
    [][lastOp' = "expand" =>
          /\ Range(ReadUnmapped(unmapped_subjects_txt))
                 = Range(ReportedSubjects(unmapped_subjects_txt))
          /\ Len(ReadUnmapped(unmapped_subjects_txt))
                 = Len(ReportedSubjects(unmapped_subjects_txt))]_vars

(***************************************************************************)
(* Claims about the names the store holds                                  *)
(***************************************************************************)
\* C23: after any sequence of cleanup and normalization runs, no row of the
\* people table and no row of the authors table has a name that consists of
\* digits only.
C23_NoDigitNames ==
    [][lastOp' \in {"normalize", "cleanup"} =>
          /\ \A p \in 1..Len(people') : ~IsDigit(people'[p].name)
          /\ \A a \in 1..Len(authors') : ~IsDigit(authors'[a])]_vars

(***************************************************************************)
(* Claims about normalization after cleaning                               *)
(***************************************************************************)
\* the names normalize_multiple_people reads from one director value
DirectorNames(value) == IF Truthy(value) THEN Names(parse_names(value)) ELSE <<>>

\* C30: normalization is stable under cleaning.  A cleanup run leaves the
\* sequence of names parsed from every director value as it was, and a
\* normalization run that follows a cleanup run on a store that was already
\* normalized adds no people row and no film_directors row.
C30_NormalizationStableUnderCleaning ==
    [][ /\ lastOp' = "cleanup" =>
              \A f \in 1..Len(films) :
                  DirectorNames(films'[f].director) = DirectorNames(films[f].director)
        /\ (lastOp' = "normalize" /\ lastOp = "cleanup" /\ HasPeopleTable) =>
              /\ Len(people') = Len(people)
              /\ film_directors' = film_directors ]_vars

\* C30 witness: normalize, cleanup, normalize have run in this order.  The
\* last run read the cleaned rows, which carry no identifier in any role
\* column, while people holds an identifier that the first run read from the
\* raw rows, and one film lists two directors with a separator that the
\* cleanup rewrote.
C30_Witness ==
    /\ lastOp = "normalize"
    /\ cleanedFilms = films
    /\ \A f \in 1..Len(films) : \A c \in RoleColumns :
           Truthy(films[f][c]) =>
               \A k \in 1..Len(parse_names(films[f][c])) :
                   parse_names(films[f][c])[k].afi_id = NULL
    /\ \E p \in 1..Len(people) : people[p].afi_id # NULL
    /\ \E f \in 1..Len(films) :
           /\ Len(DirectorNames(films[f].director)) >= 2
           /\ Cardinality({r \in 1..Len(film_directors) :
                              film_directors[r].film_id = films[f].id}) >= 2

(***************************************************************************)
(* The collector and the normalization on one store: NumFilms films with   *)
(* credits and companies, saved again or added to up to MaxSaves times,    *)
(* with normalization runs in between.                                     *)
(***************************************************************************)
\* what the collector extracted about a film: its credit columns and its
\* ProductionCompany and DistributionCompany lists
SampleCredits ==
    << [director |-> Chars("a|1"), writer |-> Chars("b"), producer |-> NULL,
        production_companies |-> <<Chars("P")>>,
        distribution_companies |-> <<Chars("D")>>],
       [director |-> Chars("b | a"), writer |-> NULL, producer |-> Chars("a"),
        production_companies |-> <<Chars("P"), Chars("Q")>>,
        distribution_companies |-> <<>>],
       [director |-> NULL, writer |-> Chars("a"), producer |-> NULL,
        production_companies |-> <<>>,
        distribution_companies |-> <<>>] >>

\* the dict film_data of the film with an AFI movie id and sample credits k
CreditedFilm(movie_id, k) ==
    [afi_movie_id |-> movie_id, director |-> SampleCredits[k].director,
     writer |-> SampleCredits[k].writer, producer |-> SampleCredits[k].producer,
     literary_credits |-> NULL, subjects |-> NULL,
     production_companies |-> SampleCredits[k].production_companies,
     distribution_companies |-> SampleCredits[k].distribution_companies]

\* save_film_data on the tables films and production_companies
SaveInto(db, film_data) ==
    LET rows == ReplaceFilm(db.films, film_data)
    IN  [films |-> rows,
         production_companies |->
             InsertCompanies(db.production_companies, LastRowId(rows), film_data)]

\* the two tables after the collector saved the first n films, film i with
\* the sample credits c[i]
RECURSIVE Ingested(_, _)
Ingested(c, n) ==
    IF n = 0 THEN [films |-> <<>>, production_companies |-> <<>>]
    ELSE SaveInto(Ingested(c, n - 1), CreditedFilm(SampleMovieId(n), c[n]))

\* collect_films_from_list reaching save_film_data for a film with credits:
\* one of the stored films again, or one film more
SaveCreditedFilm ==
    /\ saves < MaxSaves
    /\ \E n \in 1..(NumFilms + 1), k \in 1..Len(SampleCredits) :
           LET db == SaveInto([films |-> films,
                               production_companies |-> production_companies],
                              CreditedFilm(SampleMovieId(n), k))
           IN  /\ films' = db.films
               /\ production_companies' = db.production_companies
    /\ saves' = saves + 1
    /\ lastOp' = "save"
    /\ UNCHANGED <<exportVars, pageVars, cleanAuthorsVars, collectVars, people,
                   film_directors, film_writers, film_producers, authors, film_authors,
                   reran, normalizedFilms, cleanedFilms, vocabVars, parseVars>>

IngestInit ==
    /\ \E c \in [1..NumFilms -> 1..Len(SampleCredits)] :
           /\ films = Ingested(c, NumFilms).films
           /\ production_companies = Ingested(c, NumFilms).production_companies
    /\ people = <<>>
    /\ film_directors = <<>>
    /\ film_writers = <<>>
    /\ film_producers = <<>>
    /\ authors = <<>>
    /\ film_authors = <<>>
    /\ lastOp = "none"
    /\ reran = {}
    /\ normalizedFilms = <<>>
    /\ cleanedFilms = <<>>
    /\ field = NULL
    /\ results = <<>>
    /\ pc = "done"
    /\ NoVocabulary
    /\ saves = 0
    /\ NoExport
    /\ NoPages
    /\ NoCleanAuthorsRun
    /\ NoCollection

IngestNext == SaveCreditedFilm \/ NormalizeRun

IngestSpec == IngestInit /\ [][IngestNext]_vars

\* the ids of the films rows
FilmIds == {films[f].id : f \in 1..Len(films)}

\* C28: referential integrity survives reruns.  After any interleaving of
\* save_film_data calls and normalization runs, every production_companies
\* row and every row of film_directors, film_writers and film_producers
\* carries the id of a films row that exists.
C28_ReferencesExistingFilms ==
    /\ \A r \in 1..Len(production_companies) : production_companies[r].film_id \in FilmIds
    /\ \A r \in 1..Len(film_directors) : film_directors[r].film_id \in FilmIds
    /\ \A r \in 1..Len(film_writers) : film_writers[r].film_id \in FilmIds
    /\ \A r \in 1..Len(film_producers) : film_producers[r].film_id \in FilmIds
====
